---- MODULE Spec2Model ----
(***************************************************************************)
(* Multi-agent pipeline: requirement analysis, code generation, review     *)
(* loop, test generation and documentation generation, each stage calling  *)
(* a language model with bounded retry.                                    *)
(*                                                                         *)
(* Text is a sequence of one-character strings, so that trimming, case     *)
(* conversion, prefix tests and fenced-block extraction are computed on    *)
(* the characters as the Python code computes them.                        *)
(***************************************************************************)
EXTENDS Integers, Sequences, FiniteSets, TLC

(***************************************************************************)
(* Bounds                                                                  *)
(***************************************************************************)
\* Config.MAX_ITERATIONS: the externally configured cap of the review loop.
MAX_ITERATIONS == 2

(***************************************************************************)
(* Python values                                                           *)
(***************************************************************************)
\* Python's None, where a text is expected.
None == <<"None">>
\* A key that a dict response does not have.
Absent == <<"Absent">>
\* The empty str.
Empty == <<>>

\* Python truthiness of an optional str: None and "" are falsy.
Truthy(s) == s # None /\ s # Absent /\ s # Empty

Lower == <<"a","b","c","d","e","f","g","h","i","j","k","l","m",
           "n","o","p","q","r","s","t","u","v","w","x","y","z">>
UpperL == <<"A","B","C","D","E","F","G","H","I","J","K","L","M",
            "N","O","P","Q","R","S","T","U","V","W","X","Y","Z">>

\* str.upper() on one character.
UpperChar(c) ==
    IF \E i \in 1..26 : Lower[i] = c
    THEN UpperL[CHOOSE i \in 1..26 : Lower[i] = c]
    ELSE c

\* str.upper()
Upper(s) == [i \in 1..Len(s) |-> UpperChar(s[i])]

\* The characters str.strip() and the regex class \s remove.
IsWs(c) == c \in {" ", "\n", "\t", "\r"}

\* str.strip()
Strip(s) ==
    IF \A i \in 1..Len(s) : IsWs(s[i]) THEN Empty
    ELSE LET first == CHOOSE i \in 1..Len(s) :
                         ~IsWs(s[i]) /\ \A j \in 1..(i-1) : IsWs(s[j])
             last  == CHOOSE i \in 1..Len(s) :
                         ~IsWs(s[i]) /\ \A j \in (i+1)..Len(s) : IsWs(s[j])
         IN SubSeq(s, first, last)

\* p occurs in s at position i.
StartsWithAt(s, i, p) ==
    /\ i >= 1
    /\ i + Len(p) - 1 <= Len(s)
    /\ \A k \in 1..Len(p) : s[i + k - 1] = p[k]

\* str.startswith(p)
StartsWith(s, p) == StartsWithAt(s, 1, p)

\* `p in s' for str operands.
Contains(s, p) == \E i \in 1..(Len(s) + 1) : StartsWithAt(s, i, p)

\* Position of the first occurrence of p in s at or after i; Len(s)+1 if none.
FindFrom(s, p, i) ==
    IF \E j \in i..Len(s) : StartsWithAt(s, j, p)
    THEN CHOOSE j \in i..Len(s) :
            StartsWithAt(s, j, p) /\ \A k \in i..(j-1) : ~StartsWithAt(s, k, p)
    ELSE Len(s) + 1

\* str.join of a sequence of texts.
RECURSIVE Join(_, _)
Join(parts, sep) ==
    IF parts = <<>> THEN Empty
    ELSE IF Len(parts) = 1 THEN parts[1]
    ELSE parts[1] \o sep \o Join(Tail(parts), sep)

(***************************************************************************)
(* Texts used as model responses and literals of the code                  *)
(***************************************************************************)
\* The backquote character (a string of the module cannot hold it).
BQ == "BACKQUOTE"

\* ' \n'
TxtBlank == <<" ","\n">>
\* 'APPROVED'
TxtApproved == <<"A","P","P","R","O","V","E","D">>
\* '\n Approved: ok '
TxtApprovedNotes == <<"\n"," ","A","p","p","r","o","v","e","d",":"," ","o","k"," ">>
\* 'NOT APPROVED'
TxtNotApproved == <<"N","O","T"," ","A","P","P","R","O","V","E","D">>
\* 'APPROVE'
TxtApprove == <<"A","P","P","R","O","V","E">>
\* ' add tests\n'
TxtFixWs == <<" ","a","d","d"," ","t","e","s","t","s","\n">>
\* 'def f(): pass'
TxtRawCode == <<"d","e","f"," ","f","(",")",":"," ","p","a","s","s">>
\* 'Sure:\n```python\ndef f(): pass\n```\nDone'
TxtFencedPy == <<"S","u","r","e",":","\n",BQ,BQ,BQ,"p","y","t","h","o","n","\n","d","e","f"," ","f","(",")",":"," ","p","a","s","s","\n",BQ,BQ,BQ,"\n","D","o","n","e">>
\* '```js\nlet x\n```\n'
TxtFencedJs == <<BQ,BQ,BQ,"j","s","\n","l","e","t"," ","x","\n",BQ,BQ,BQ,"\n">>
\* '```python\nassert f()\n```'
TxtTests == <<BQ,BQ,BQ,"p","y","t","h","o","n","\n","a","s","s","e","r","t"," ","f","(",")","\n",BQ,BQ,BQ>>
\* ' # Docs\n'
TxtDocs == <<" ","#"," ","D","o","c","s","\n">>

\* The literal "APPROVED" of review().
TokApproved == <<"A","P","P","R","O","V","E","D">>
\* The literal "```" of the block patterns.
Fence == <<BQ,BQ,BQ>>
\* The literal "python" of the first block pattern.
PyTag == <<"p","y","t","h","o","n">>
\* The separator '\n\n' of the combined blocks.
BlockSep == <<"\n","\n">>

\* ['def ', 'class ', 'import ', 'from ', '# File:'] of generate_code.
CodeKeywords ==
    { <<"d","e","f"," ">>, <<"c","l","a","s","s"," ">>,
      <<"i","m","p","o","r","t"," ">>, <<"f","r","o","m"," ">>,
      <<"#"," ","F","i","l","e",":">> }

\* ['def test_', 'import pytest', 'class Test', 'assert '] of generate_tests.
TestKeywords ==
    { <<"d","e","f"," ","t","e","s","t","_">>,
      <<"i","m","p","o","r","t"," ","p","y","t","e","s","t">>,
      <<"c","l","a","s","s"," ","T","e","s","t">>,
      <<"a","s","s","e","r","t"," ">> }

(***************************************************************************)
(* Model responses: what agent.generate_reply gives back                   *)
(***************************************************************************)
\* generate_reply returned None.
NoneResp == [kind |-> "none", body |-> Absent, alt |-> Absent]
\* generate_reply raised.
ExcResp == [kind |-> "exc", body |-> Absent, alt |-> Absent]
\* generate_reply returned the str t.
StrResp(t) == [kind |-> "str", body |-> t, alt |-> Absent]
\* generate_reply returned a dict with "content" c and "text" t (Absent: no
\* such key).
DictResp(c, t) == [kind |-> "dict", body |-> c, alt |-> t]

\* dict.get(key, "") for a str-valued key.
DictGet(v) == IF v = Absent THEN Empty ELSE v

\* str(response) for a dict response: Python's rendering of the mapping,
\* braces around its items; never the empty str.
DictRepr(r) == <<"{">> \o DictGet(r.body) \o DictGet(r.alt) \o <<"}">>

\* response.get("content", "") if isinstance(response, dict) else str(response)
ContentOf(r) == IF r.kind = "dict" THEN DictGet(r.body) ELSE r.body

\* response.get("content", "") or response.get("text", "") or str(response)
\* for a dict, else str(response).
ContentOrText(r) ==
    IF r.kind = "dict"
    THEN IF Truthy(DictGet(r.body)) THEN DictGet(r.body)
         ELSE IF Truthy(DictGet(r.alt)) THEN DictGet(r.alt)
         ELSE DictRepr(r)
    ELSE r.body

(***************************************************************************)
(* Fenced-block extraction                                                 *)
(***************************************************************************)
IsLowerAZ(c) == \E i \in 1..26 : Lower[i] = c

\* First position at or after i that is not whitespace (end of \s*).
WsRunEnd(s, i) ==
    IF \E j \in i..Len(s) : ~IsWs(s[j])
    THEN CHOOSE j \in i..Len(s) : ~IsWs(s[j]) /\ \A k \in i..(j-1) : IsWs(s[k])
    ELSE Len(s) + 1

\* First position at or after i that is not in [a-z] (end of (?:[a-z]+)?).
LowerRunEnd(s, i) ==
    IF \E j \in i..Len(s) : ~IsLowerAZ(s[j])
    THEN CHOOSE j \in i..Len(s) :
            ~IsLowerAZ(s[j]) /\ \A k \in i..(j-1) : IsLowerAZ(s[k])
    ELSE Len(s) + 1

\* Where group 1 starts if the opening part of the block pattern matches at
\* i, else 0.  pyOnly: r'```python\s*\n', otherwise r'```(?:[a-z]+)?\s*\n'.
\* The greedy \s* gives back up to the last newline of the whitespace run.
OpenerGroupStart(s, i, pyOnly) ==
    IF ~StartsWithAt(s, i, Fence) THEN 0
    ELSE IF pyOnly /\ ~StartsWithAt(s, i + 3, PyTag) THEN 0
    ELSE LET afterTag == IF pyOnly THEN i + 3 + Len(PyTag)
                         ELSE LowerRunEnd(s, i + 3)
             wsEnd == WsRunEnd(s, afterTag)
             nls == { m \in afterTag..(wsEnd - 1) : s[m] = "\n" }
         IN IF nls = {} THEN 0
            ELSE (CHOOSE m \in nls : \A n \in nls : n <= m) + 1

\* re.finditer over the block pattern from position i: the stripped,
\* non-empty groups in order of appearance; a match can only start at a
\* fence.  (.*?)(?:```|$) under DOTALL ends
\* the group at the next fence or at the end of the text.
RECURSIVE BlocksFrom(_, _, _)
BlocksFrom(s, i, pyOnly) ==
    LET f == FindFrom(s, Fence, i)
    IN IF f > Len(s) THEN <<>>
       ELSE LET g == OpenerGroupStart(s, f, pyOnly)
            IN IF g = 0 THEN BlocksFrom(s, f + 1, pyOnly)
               ELSE LET e == FindFrom(s, Fence, g)
                        code == Strip(SubSeq(s, g, e - 1))
                        next == IF e > Len(s) THEN Len(s) + 1 ELSE e + 3
                    IN (IF code # Empty THEN <<code>> ELSE <<>>)
                           \o BlocksFrom(s, next, pyOnly)

\* Variant: only blocks tagged python are looked for.
extract_code_blocks_python_only(content) ==
    IF ~Truthy(content) THEN Empty
    ELSE LET python_blocks == BlocksFrom(content, 1, TRUE)
         IN IF python_blocks # <<>> THEN Join(python_blocks, BlockSep)
            ELSE Strip(content)

\* CodingAgent._extract_code_blocks / TestGenerationAgent._extract_code_blocks.
\* The "looks like code" branch and the final fallback both return
\* content.strip(), so the result without blocks is content.strip().
extract_code_blocks(content) ==
    IF ~Truthy(content) THEN Empty
    ELSE LET python_blocks == BlocksFrom(content, 1, TRUE)
             code_blocks == IF python_blocks # <<>> THEN python_blocks
                            ELSE BlocksFrom(content, 1, FALSE)
         IN IF code_blocks # <<>> THEN Join(code_blocks, BlockSep)
            ELSE Strip(content)

\* Variant: 30% itself counts as much shorter.
MuchShorterOrEqual(extracted, code) == 10 * Len(extracted) <= 3 * Len(code)

\* len(extracted) < len(code) * 0.3, in integers.
MuchShorter(extracted, code) == 10 * Len(extracted) < 3 * Len(code)

\* Raw responses longer than this are candidates for the safety net.
SafetyNetMinLen == 200

\* generate_code after the retry loop: extraction and safety net.
ExtractGenerated(code) ==
    LET extracted_code == extract_code_blocks(code)
    IN IF /\ MuchShorter(extracted_code, code)
          /\ Len(code) > SafetyNetMinLen
          /\ \E keyword \in CodeKeywords : Contains(code, keyword)
       THEN Strip(code)
       ELSE IF extracted_code # Empty THEN extracted_code ELSE Strip(code)

\* generate_tests inside the retry loop: extraction and safety net.
ExtractTests(test_code) ==
    LET extracted_code == extract_code_blocks(test_code)
    IN IF MuchShorter(extracted_code, test_code) /\ Len(test_code) > SafetyNetMinLen
       THEN IF \E keyword \in TestKeywords : Contains(test_code, keyword)
            THEN Strip(test_code)
            ELSE extracted_code
       ELSE extracted_code

(***************************************************************************)
(* Requirement analysis: payload parsing and the requirement record        *)
(***************************************************************************)
\* 'python'
TxtPython == <<"p","y","t","h","o","n">>
\* 'javascript'
TxtJavascript == <<"j","a","v","a","s","c","r","i","p","t">>
\* 'react'
TxtReact == <<"r","e","a","c","t">>
\* 'Assumption not specified'
TxtAssumptionNotSpecified == <<"A","s","s","u","m","p","t","i","o","n"," ","n","o","t"," ","s","p","e","c","i","f","i","e","d">>
\* '# No code example provided'
TxtNoCodeExample == <<"#"," ","N","o"," ","c","o","d","e"," ","e","x","a","m","p","l","e"," ","p","r","o","v","i","d","e","d">>
\* 'Could not parse structured requirements - using raw input'
TxtCouldNotParse == <<"C","o","u","l","d"," ","n","o","t"," ","p","a","r","s","e"," ","s","t","r","u","c","t","u","r","e","d"," ","r","e","q","u","i","r","e","m","e","n","t","s"," ","-"," ","u","s","i","n","g"," ","r","a","w"," ","i","n","p","u","t">>
\* 'Could not parse structured requirements'
TxtCouldNotParseQ == <<"C","o","u","l","d"," ","n","o","t"," ","p","a","r","s","e"," ","s","t","r","u","c","t","u","r","e","d"," ","r","e","q","u","i","r","e","m","e","n","t","s">>
\* 'Using raw input as requirement'
TxtUsingRawInput == <<"U","s","i","n","g"," ","r","a","w"," ","i","n","p","u","t"," ","a","s"," ","r","e","q","u","i","r","e","m","e","n","t">>
\* '# JSON parsing failed - requirements may be incomplete'
TxtJsonFailedCode == <<"#"," ","J","S","O","N"," ","p","a","r","s","i","n","g"," ","f","a","i","l","e","d"," ","-"," ","r","e","q","u","i","r","e","m","e","n","t","s"," ","m","a","y"," ","b","e"," ","i","n","c","o","m","p","l","e","t","e">>
\* 'JSON parsing failed - requirements may be incomplete'
TxtJsonFailed == <<"J","S","O","N"," ","p","a","r","s","i","n","g"," ","f","a","i","l","e","d"," ","-"," ","r","e","q","u","i","r","e","m","e","n","t","s"," ","m","a","y"," ","b","e"," ","i","n","c","o","m","p","l","e","t","e">>
\* 'sum two ints in python'
TxtInputPy == <<"s","u","m"," ","t","w","o"," ","i","n","t","s"," ","i","n"," ","p","y","t","h","o","n">>
\* 'a reactive js page'
TxtInputReact == <<"a"," ","r","e","a","c","t","i","v","e"," ","j","s"," ","p","a","g","e">>
\* 'adds two ints'
TxtReqAdd == <<"a","d","d","s"," ","t","w","o"," ","i","n","t","s">>
\* 'is fast'
TxtReqFast == <<"i","s"," ","f","a","s","t">>
\* 'which ints?'
TxtWhichInts == <<"w","h","i","c","h"," ","i","n","t","s","?">>
\* '32-bit'
TxtInt32 == <<"3","2","-","b","i","t">>
\* 'JavaScript'
TxtLangJS == <<"J","a","v","a","S","c","r","i","p","t">>
\* 'TypeScript' and 'Cobol'
TxtLangTS == <<"T","y","p","e","S","c","r","i","p","t">>
TxtLangCobol == <<"C","o","b","o","l">>
\* 'no json here'
TxtNoJson == <<"n","o"," ","j","s","o","n"," ","h","e","r","e">>

\* ["react", "jsx", "reactjs", "react.js"] of the React double-check.
ReactTerms ==
    { <<"r","e","a","c","t">>, <<"j","s","x">>,
      <<"r","e","a","c","t","j","s">>, <<"r","e","a","c","t",".","j","s">> }

\* str.lower() on one character.
LowerChar(c) ==
    IF \E i \in 1..26 : UpperL[i] = c
    THEN Lower[CHOOSE i \in 1..26 : UpperL[i] = c]
    ELSE c

\* str.lower()
ToLower(s) == [i \in 1..Len(s) |-> LowerChar(s[i])]

\* The regex class \w.
IsWordChar(c) ==
    \/ \E i \in 1..26 : Lower[i] = c \/ UpperL[i] = c
    \/ c \in {"0","1","2","3","4","5","6","7","8","9","_"}

\* The regex assertion \b between positions i-1 and i of s.
WordBoundary(s, i) ==
    LET before == i - 1 >= 1 /\ i - 1 <= Len(s) /\ IsWordChar(s[i - 1])
        after  == i >= 1 /\ i <= Len(s) /\ IsWordChar(s[i])
    IN before # after

\* re.search(pattern, s) for a pattern [pre, lit, post].
Search(p, s) ==
    \E i \in 1..Len(s) :
        /\ StartsWithAt(s, i, p.lit)
        /\ p.pre => WordBoundary(s, i)
        /\ p.post => WordBoundary(s, i + Len(p.lit))

\* language_patterns of _detect_programming_language, in priority_order:
\* each pattern r'\bLIT\b' as [pre, lit, post] (pre/post: a \b before/after).
language_patterns ==
    << [lang |-> <<"r","e","a","c","t">>,
        patterns |-> << [pre |-> TRUE, lit |-> <<"r","e","a","c","t">>, post |-> TRUE],
                      [pre |-> TRUE, lit |-> <<"j","s","x">>, post |-> TRUE],
                      [pre |-> FALSE, lit |-> <<".","j","s","x">>, post |-> TRUE],
                      [pre |-> FALSE, lit |-> <<".","t","s","x">>, post |-> TRUE],
                      [pre |-> TRUE, lit |-> <<"r","e","a","c","t","j","s">>, post |-> TRUE],
                      [pre |-> TRUE, lit |-> <<"r","e","a","c","t",".","j","s">>, post |-> TRUE],
                      [pre |-> TRUE, lit |-> <<"c","r","e","a","t","e","-","r","e","a","c","t","-","a","p","p">>, post |-> TRUE],
                      [pre |-> TRUE, lit |-> <<"n","e","x","t",".","j","s">>, post |-> TRUE],
                      [pre |-> TRUE, lit |-> <<"g","a","t","s","b","y">>, post |-> TRUE] >>],
       [lang |-> <<"t","y","p","e","s","c","r","i","p","t">>,
        patterns |-> << [pre |-> TRUE, lit |-> <<"t","y","p","e","s","c","r","i","p","t">>, post |-> TRUE],
                      [pre |-> TRUE, lit |-> <<"t","s">>, post |-> TRUE],
                      [pre |-> FALSE, lit |-> <<".","t","s">>, post |-> TRUE],
                      [pre |-> FALSE, lit |-> <<".","t","s","x">>, post |-> TRUE] >>],
       [lang |-> <<"j","a","v","a","s","c","r","i","p","t">>,
        patterns |-> << [pre |-> TRUE, lit |-> <<"j","a","v","a","s","c","r","i","p","t">>, post |-> TRUE],
                      [pre |-> TRUE, lit |-> <<"j","s">>, post |-> TRUE],
                      [pre |-> FALSE, lit |-> <<".","j","s">>, post |-> TRUE],
                      [pre |-> TRUE, lit |-> <<"n","p","m">>, post |-> TRUE],
                      [pre |-> TRUE, lit |-> <<"n","o","d","e",".","j","s">>, post |-> TRUE],
                      [pre |-> TRUE, lit |-> <<"n","o","d","e","j","s">>, post |-> TRUE],
                      [pre |-> TRUE, lit |-> <<"p","a","c","k","a","g","e",".","j","s","o","n">>, post |-> TRUE],
                      [pre |-> TRUE, lit |-> <<"e","x","p","r","e","s","s">>, post |-> TRUE] >>],
       [lang |-> <<"p","y","t","h","o","n">>,
        patterns |-> << [pre |-> TRUE, lit |-> <<"p","y","t","h","o","n">>, post |-> TRUE],
                      [pre |-> FALSE, lit |-> <<".","p","y">>, post |-> TRUE],
                      [pre |-> TRUE, lit |-> <<"p","i","p">>, post |-> TRUE],
                      [pre |-> TRUE, lit |-> <<"p","y","i","n","s","t","a","l","l","e","r">>, post |-> TRUE],
                      [pre |-> TRUE, lit |-> <<"d","j","a","n","g","o">>, post |-> TRUE],
                      [pre |-> TRUE, lit |-> <<"f","l","a","s","k">>, post |-> TRUE],
                      [pre |-> TRUE, lit |-> <<"p","y","t","e","s","t">>, post |-> TRUE] >>],
       [lang |-> <<"j","a","v","a">>,
        patterns |-> << [pre |-> TRUE, lit |-> <<"j","a","v","a">>, post |-> TRUE],
                      [pre |-> FALSE, lit |-> <<".","j","a","v","a">>, post |-> TRUE],
                      [pre |-> TRUE, lit |-> <<"m","a","v","e","n">>, post |-> TRUE],
                      [pre |-> TRUE, lit |-> <<"p","o","m",".","x","m","l">>, post |-> TRUE],
                      [pre |-> TRUE, lit |-> <<"g","r","a","d","l","e">>, post |-> TRUE],
                      [pre |-> TRUE, lit |-> <<"s","p","r","i","n","g">>, post |-> TRUE] >>],
       [lang |-> <<"c","p","p">>,
        patterns |-> << [pre |-> TRUE, lit |-> <<"c","+","+">>, post |-> TRUE],
                      [pre |-> TRUE, lit |-> <<"c","p","p">>, post |-> TRUE],
                      [pre |-> FALSE, lit |-> <<".","c","p","p">>, post |-> TRUE],
                      [pre |-> FALSE, lit |-> <<".","h","p","p">>, post |-> TRUE],
                      [pre |-> TRUE, lit |-> <<"c","m","a","k","e">>, post |-> TRUE] >>],
       [lang |-> <<"c","s","h","a","r","p">>,
        patterns |-> << [pre |-> TRUE, lit |-> <<"c","#">>, post |-> TRUE],
                      [pre |-> TRUE, lit |-> <<"c","s","h","a","r","p">>, post |-> TRUE],
                      [pre |-> FALSE, lit |-> <<".","c","s">>, post |-> TRUE],
                      [pre |-> FALSE, lit |-> <<".","n","e","t">>, post |-> TRUE] >>],
       [lang |-> <<"g","o">>,
        patterns |-> << [pre |-> TRUE, lit |-> <<"g","o">>, post |-> TRUE],
                      [pre |-> TRUE, lit |-> <<"g","o","l","a","n","g">>, post |-> TRUE],
                      [pre |-> FALSE, lit |-> <<".","g","o">>, post |-> TRUE],
                      [pre |-> TRUE, lit |-> <<"g","o",".","m","o","d">>, post |-> TRUE] >>],
       [lang |-> <<"r","u","s","t">>,
        patterns |-> << [pre |-> TRUE, lit |-> <<"r","u","s","t">>, post |-> TRUE],
                      [pre |-> FALSE, lit |-> <<".","r","s">>, post |-> TRUE],
                      [pre |-> TRUE, lit |-> <<"c","a","r","g","o">>, post |-> TRUE] >>],
       [lang |-> <<"r","u","b","y">>,
        patterns |-> << [pre |-> TRUE, lit |-> <<"r","u","b","y">>, post |-> TRUE],
                      [pre |-> FALSE, lit |-> <<".","r","b">>, post |-> TRUE],
                      [pre |-> TRUE, lit |-> <<"g","e","m","f","i","l","e">>, post |-> TRUE],
                      [pre |-> TRUE, lit |-> <<"r","a","i","l","s">>, post |-> TRUE] >>],
       [lang |-> <<"p","h","p">>,
        patterns |-> << [pre |-> TRUE, lit |-> <<"p","h","p">>, post |-> TRUE],
                      [pre |-> FALSE, lit |-> <<".","p","h","p">>, post |-> TRUE],
                      [pre |-> TRUE, lit |-> <<"c","o","m","p","o","s","e","r">>, post |-> TRUE] >>],
       [lang |-> <<"s","w","i","f","t">>,
        patterns |-> << [pre |-> TRUE, lit |-> <<"s","w","i","f","t">>, post |-> TRUE],
                      [pre |-> FALSE, lit |-> <<".","s","w","i","f","t">>, post |-> TRUE] >>],
       [lang |-> <<"k","o","t","l","i","n">>,
        patterns |-> << [pre |-> TRUE, lit |-> <<"k","o","t","l","i","n">>, post |-> TRUE],
                      [pre |-> FALSE, lit |-> <<".","k","t">>, post |-> TRUE] >>] >>

\* Variant: the languages are tried in the order of the table, without
\* priority_order: python, react, javascript, typescript, then the others.
detect_programming_language_table_order(input) ==
    LET user_lower == ToLower(input)
        hits == { n \in 1..Len(language_patterns) :
                    \E k \in 1..Len(language_patterns[n].patterns) :
                        Search(language_patterns[n].patterns[k], user_lower) }
        rank(n) == CASE n = 4 -> 1 [] n = 1 -> 2 [] n = 3 -> 3 [] n = 2 -> 4
                     [] OTHER -> n
    IN IF hits = {} THEN TxtPython
       ELSE language_patterns[CHOOSE n \in hits :
                                \A m \in hits : rank(n) <= rank(m)].lang

\* RequirementAnalysisAgent._detect_programming_language
detect_programming_language(input) ==
    LET user_lower == ToLower(input)
        hits == { n \in 1..Len(language_patterns) :
                    \E k \in 1..Len(language_patterns[n].patterns) :
                        Search(language_patterns[n].patterns[k], user_lower) }
    IN IF hits = {} THEN TxtPython
       ELSE language_patterns[CHOOSE n \in hits : \A m \in hits : n <= m].lang

\* A clarifying-question entry of the payload: a plain string (old format)
\* or a mapping whose keys may be missing (Absent).
QStr(q) == [kind |-> "str", question |-> q, assumption |-> Absent, code |-> Absent]
QDict(q, a, c) == [kind |-> "dict", question |-> q, assumption |-> a, code |-> c]

\* The members a payload can carry.  A member is one element of the text,
\* standing for the JSON text `"key": value'.
JsonMemberTokens ==
    {"FR", "NFR", "LANG", "AMB", "CQS", "CQD", "FRNULL", "CQNULL",
     "LANGTS", "LANGX", "LANGEMPTY"}

JsonKey(tok) ==
    CASE tok = "FR"   -> "functional_requirements"
      [] tok = "NFR"  -> "non_functional_requirements"
      [] tok = "LANG" -> "programming_language"
      [] tok = "AMB"  -> "ambiguity_detected"
      [] tok = "CQS"  -> "clarifying_questions"
      [] tok = "CQD"  -> "clarifying_questions"
      [] tok = "FRNULL" -> "functional_requirements"
      [] tok = "CQNULL" -> "clarifying_questions"
      [] tok = "LANGTS" -> "programming_language"
      [] tok = "LANGX" -> "programming_language"
      [] tok = "LANGEMPTY" -> "programming_language"

\* None where the program expects a list.
NoneList == <<None>>

JsonValue(tok) ==
    CASE tok = "FR"   -> <<TxtReqAdd>>
      [] tok = "NFR"  -> <<TxtReqFast>>
      [] tok = "LANG" -> TxtLangJS
      [] tok = "AMB"  -> TRUE
      [] tok = "CQS"  -> <<QStr(TxtWhichInts)>>
      [] tok = "CQD"  -> <<QDict(TxtWhichInts, TxtInt32, Absent)>>
      [] tok = "FRNULL" -> NoneList
      [] tok = "CQNULL" -> NoneList
      [] tok = "LANGTS" -> TxtLangTS
      [] tok = "LANGX" -> TxtLangCobol
      [] tok = "LANGEMPTY" -> Empty

\* The members whose value is null.
JsonNull(tok) == tok \in {"FRNULL", "CQNULL"}

\* json.loads raised JSONDecodeError.
JsonError == [ok |-> FALSE]

\* json.loads(json_str): an object is "{", members (whitespace allowed
\* between them), "}"; a repeated key keeps its last value.
JsonLoads(js) ==
    IF /\ Len(js) >= 2
       /\ js[1] = "{"
       /\ js[Len(js)] = "}"
       /\ \A i \in 2..(Len(js) - 1) : js[i] \in JsonMemberTokens \/ IsWs(js[i])
    THEN LET at == { i \in 2..(Len(js) - 1) : js[i] \in JsonMemberTokens }
             keys == { JsonKey(js[i]) : i \in at }
             lastOf(k) == CHOOSE i \in at :
                             /\ JsonKey(js[i]) = k
                             /\ \A j \in at : JsonKey(js[j]) = k => j <= i
         IN [ok |-> TRUE, obj |-> [k \in keys |-> JsonValue(js[lastOf(k)])],
             nulls |-> { k \in keys : JsonNull(js[lastOf(k)]) }]
    ELSE JsonError

\* dict.get(key, default)
Get(d, key, default) == IF key \in DOMAIN d THEN d[key] ELSE default

\* RequirementAnalysisAgent._parse_fallback
parse_fallback(content) ==
    [k \in {"functional_requirements", "non_functional_requirements",
            "assumptions", "constraints", "programming_language",
            "clarifying_questions", "ambiguity_detected", "ambiguity_notes"} |->
        CASE k = "functional_requirements" -> <<content>>
          [] k = "non_functional_requirements" -> <<>>
          [] k = "assumptions" -> <<TxtCouldNotParse>>
          [] k = "constraints" -> <<>>
          [] k = "programming_language" -> TxtPython
          [] k = "clarifying_questions" ->
                <<QDict(TxtCouldNotParseQ, TxtUsingRawInput, TxtJsonFailedCode)>>
          [] k = "ambiguity_detected" -> TRUE
          [] k = "ambiguity_notes" -> TxtJsonFailed]

\* The payload of analyze: the text from the first "{" to the last "}",
\* parsed; the fallback record without such a span or on a decode error.
\* nulls: the keys of the payload whose value is None.
ParsePayload(content) ==
    LET opens == { i \in 1..Len(content) : content[i] = "{" }
        closes == { i \in 1..Len(content) : content[i] = "}" }
        json_start == IF opens = {} THEN 0
                      ELSE CHOOSE i \in opens : \A j \in opens : i <= j
        json_end == IF closes = {} THEN 0
                    ELSE CHOOSE i \in closes : \A j \in closes : j <= i
    IN IF json_start >= 1 /\ json_end > json_start
       THEN LET loaded == JsonLoads(SubSeq(content, json_start, json_end))
            IN IF loaded.ok
               THEN [requirements |-> loaded.obj, nulls |-> loaded.nulls,
                     fallback |-> FALSE]
               ELSE [requirements |-> parse_fallback(content), nulls |-> {},
                     fallback |-> TRUE]
       ELSE [requirements |-> parse_fallback(content), nulls |-> {},
             fallback |-> TRUE]

\* `for q in None' raises TypeError.
TypeError == [raised |-> "TypeError"]

\* Variant: the entries are put in front of the list.
RECURSIVE NormalizeQuestionsReversed(_)
NormalizeQuestionsReversed(raw) ==
    IF raw = <<>> THEN <<>>
    ELSE LET q == Head(raw)
             entry ==
                IF q.kind = "dict"
                THEN <<[question |-> DictGet(q.question),
                        assumption |-> DictGet(q.assumption),
                        code |-> DictGet(q.code)]>>
                ELSE IF q.kind = "str"
                THEN <<[question |-> q.question,
                        assumption |-> TxtAssumptionNotSpecified,
                        code |-> TxtNoCodeExample]>>
                ELSE <<>>
         IN NormalizeQuestionsReversed(Tail(raw)) \o entry

\* One entry of clarifying_questions in the new format; entries that are
\* neither a mapping nor a string are dropped.
RECURSIVE NormalizeQuestions(_)
NormalizeQuestions(raw) ==
    IF raw = <<>> THEN <<>>
    ELSE LET q == Head(raw)
             entry ==
                IF q.kind = "dict"
                THEN <<[question |-> DictGet(q.question),
                        assumption |-> DictGet(q.assumption),
                        code |-> DictGet(q.code)]>>
                ELSE IF q.kind = "str"
                THEN <<[question |-> q.question,
                        assumption |-> TxtAssumptionNotSpecified,
                        code |-> TxtNoCodeExample]>>
                ELSE <<>>
         IN entry \o NormalizeQuestions(Tail(raw))

\* Variant: every tag is upgraded when the input holds a React marker.
UpgradeToReactAnyTag(detected_language, user_lower) ==
    IF \E term \in ReactTerms : Contains(user_lower, term)
    THEN TxtReact
    ELSE detected_language

\* analyze: the double-check that upgrades javascript to react.
UpgradeToReact(detected_language, user_lower) ==
    IF /\ detected_language = TxtJavascript
       /\ \E term \in ReactTerms : Contains(user_lower, term)
    THEN TxtReact
    ELSE detected_language

\* analyze after the retry loop: the record built from the response text.
BuildRequirements(content, input) ==
    LET parsed == ParsePayload(content)
        requirements == parsed.requirements
        clarifying_questions_raw == Get(requirements, "clarifying_questions", <<>>)
        clarifying_questions == NormalizeQuestions(clarifying_questions_raw)
        payload_language == Get(requirements, "programming_language", Empty)
        detected_language ==
            IF ~Truthy(payload_language) THEN detect_programming_language(input)
            ELSE ToLower(payload_language)
        user_lower == ToLower(input)
        upgraded == UpgradeToReact(detected_language, user_lower)
        final_language == IF Truthy(upgraded) THEN ToLower(upgraded) ELSE TxtPython
    IN IF "clarifying_questions" \in parsed.nulls THEN TypeError
       ELSE
       [functional_requirements |-> Get(requirements, "functional_requirements", <<>>),
        non_functional_requirements |->
            Get(requirements, "non_functional_requirements", <<>>),
        assumptions |-> Get(requirements, "assumptions", <<>>),
        constraints |-> Get(requirements, "constraints", <<>>),
        programming_language |-> final_language,
        clarifying_questions |-> clarifying_questions,
        ambiguity_detected |-> Get(requirements, "ambiguity_detected", FALSE),
        ambiguity_notes |-> Get(requirements, "ambiguity_notes", Empty)]

(***************************************************************************)
(* The local ambiguity pre-check of RequirementAnalysisAgent               *)
(***************************************************************************)
\* The alternatives of each pattern r'\b(a|b|c)\b'.
vague_terms ==
    << { <<"u","s","e","r","-","f","r","i","e","n","d","l","y">>,
         <<"u","s","e","r"," ","f","r","i","e","n","d","l","y">> },
       { <<"f","a","s","t">>,
         <<"q","u","i","c","k">>,
         <<"q","u","i","c","k","l","y">> },
       { <<"g","o","o","d">>,
         <<"b","e","t","t","e","r">>,
         <<"b","e","s","t">> },
       { <<"e","a","s","y">>,
         <<"s","i","m","p","l","e">>,
         <<"e","a","s","i","l","y">> },
       { <<"n","i","c","e">>,
         <<"n","i","c","e","-","l","o","o","k","i","n","g">>,
         <<"p","r","e","t","t","y">> },
       { <<"s","o","m","e">>,
         <<"v","a","r","i","o","u","s">>,
         <<"m","u","l","t","i","p","l","e">>,
         <<"s","e","v","e","r","a","l">> },
       { <<"s","h","o","u","l","d">>,
         <<"c","o","u","l","d">>,
         <<"m","i","g","h","t">>,
         <<"m","a","y">> } >>

missing_patterns ==
    << { <<"i","n","p","u","t">>,
         <<"o","u","t","p","u","t">> },
       { <<"e","r","r","o","r">>,
         <<"e","x","c","e","p","t","i","o","n">>,
         <<"h","a","n","d","l","e">> },
       { <<"p","l","a","t","f","o","r","m">>,
         <<"o","s">>,
         <<"o","p","e","r","a","t","i","n","g"," ","s","y","s","t","e","m">> },
       { <<"p","e","r","f","o","r","m","a","n","c","e">>,
         <<"s","p","e","e","d">>,
         <<"t","i","m","e">> } >>

\* re.search(r'\b(a|b|c)\b', s, re.IGNORECASE): one of the alternatives
\* stands in s between two word boundaries.
re_search_words(alternatives, s) ==
    LET lower == ToLower(s)
    IN \E w \in alternatives, i \in 1..Len(s) :
        /\ StartsWithAt(lower, i, w)
        /\ IF i = 1 THEN TRUE ELSE ~IsWordChar(s[i - 1])
        /\ IF i + Len(w) > Len(s) THEN TRUE ELSE ~IsWordChar(s[i + Len(w)])

\* Variant: two patterns are enough.
detect_ambiguity_from_two(user_input) ==
    LET vague_count ==
            Cardinality({ k \in DOMAIN vague_terms :
                            re_search_words(vague_terms[k], user_input) })
        missing_count ==
            Cardinality({ k \in DOMAIN missing_patterns :
                            ~re_search_words(missing_patterns[k], user_input) })
    IN [is_ambiguous |-> vague_count >= 2 \/ missing_count >= 2
                            \/ Len(Strip(user_input)) < 50,
        vague_terms_found |-> vague_count,
        missing_specifications |-> missing_count,
        input_length |-> Len(user_input)]

\* _detect_ambiguity
detect_ambiguity(user_input) ==
    LET vague_count ==
            Cardinality({ k \in DOMAIN vague_terms :
                            re_search_words(vague_terms[k], user_input) })
        missing_count ==
            Cardinality({ k \in DOMAIN missing_patterns :
                            ~re_search_words(missing_patterns[k], user_input) })
    IN [is_ambiguous |-> vague_count > 2 \/ missing_count > 2
                            \/ Len(Strip(user_input)) < 50,
        vague_terms_found |-> vague_count,
        missing_specifications |-> missing_count,
        input_length |-> Len(user_input)]

\* Variant: the pre-check sets the flag of the record.
AnalysisRecordGated(content, input, ambiguity_info) ==
    LET built == BuildRequirements(content, input)
    IN IF built = TypeError THEN built
       ELSE [built EXCEPT !.ambiguity_detected = @ \/ ambiguity_info.is_ambiguous]

\* analyze after the model answered: ambiguity_info, the result of the
\* pre-check, is a local that is not read again.
AnalysisRecord(content, input, ambiguity_info) ==
    BuildRequirements(content, input)

(***************************************************************************)
(* Inputs of the model                                                     *)
(***************************************************************************)
\* '{"functional_requirements": [...], "non_functional_requirements": [...],
\*   "programming_language": "JavaScript", "clarifying_questions": ["..."],
\*   "ambiguity_detected": true}'
TxtPayloadFull == <<"{", "FR", " ", "NFR", "LANG", "CQS", "AMB", "}">>
\* 'ok: {"functional_requirements": [...], "clarifying_questions": [{...}]}\n'
TxtPayloadInProse == <<"o","k",":"," ","{", "FR", "CQD", "}", "\n">>

\* '{"clarifying_questions": null}'
TxtPayloadNullQuestions == <<"{", "CQNULL", "}">>
\* '{"functional_requirements": null, "ambiguity_detected": true}'
TxtPayloadNullRequirements == <<"{", "FRNULL", "AMB", "}">>
\* '{"functional_requirements": [...], "clarifying_questions": ...' cut short
TxtPayloadCut == <<"{", "FR", "CQS">>
\* '{"functional_requirements": [...] oops }'
TxtPayloadInvalid == <<"{", "FR", "o", "o", "p", "s", "}">>

\* '{"functional_requirements": [...]} as in {x}'
TxtPayloadThenBraces ==
    <<"{", "FR", "}", " ", "a", "s", " ", "i", "n", " ", "{", "x", "}">>

\* What the user can type into the requirements box.
UserInputs == {TxtInputPy, TxtInputReact}

\* What the model can answer to each stage.
AnalyzeResponses ==
    { NoneResp, ExcResp, StrResp(Empty), StrResp(TxtBlank), DictResp(Empty, Absent),
      StrResp(TxtPayloadFull), DictResp(TxtPayloadInProse, Absent), StrResp(TxtNoJson),
      StrResp(TxtPayloadNullQuestions) }

\* The same, with more shapes of payload.
AnalyzeResponsesWide ==
    AnalyzeResponses \cup
    { StrResp(TxtPayloadNullRequirements), StrResp(TxtPayloadCut),
      StrResp(TxtPayloadInvalid), StrResp(TxtPayloadThenBraces) }

GenerateResponses ==
    { NoneResp, ExcResp, StrResp(TxtBlank), DictResp(Empty, Absent),
      StrResp(TxtRawCode), StrResp(TxtFencedPy), DictResp(Absent, TxtFencedJs) }

\* The tags of the supported languages.
LanguageTags == { language_patterns[i].lang : i \in DOMAIN language_patterns }

\* A response that is one fenced block: fence, tag, newline, inner text,
\* newline, fence.
Fenced(tag, inner) == Fence \o tag \o <<"\n">> \o inner \o <<"\n">> \o Fence

\* '\n let x \n\n'
TxtInnerWs == <<"\n"," ","l","e","t"," ","x"," ","\n","\n">>
\* 'import x' followed by 250 spaces
TxtInnerPadded == <<"i","m","p","o","r","t"," ","x">> \o [i \in 1..250 |-> " "]

\* Inner texts of a fenced block.
InnerTexts == { TxtRawCode, TxtInnerWs, TxtInnerPadded, TxtBlank }

\* The same answers as GenerateResponses, and single fenced blocks of every
\* supported language.
GenerateResponsesWide ==
    GenerateResponses \cup
    { StrResp(Fenced(tag, inner)) : tag \in LanguageTags, inner \in InnerTexts }

ReviewResponses ==
    { NoneResp, ExcResp, StrResp(Empty), StrResp(TxtApproved),
      DictResp(TxtApprovedNotes, Absent), StrResp(TxtNotApproved),
      StrResp(TxtApprove), DictResp(TxtFixWs, Absent) }

TestResponses ==
    { NoneResp, ExcResp, StrResp(Empty), DictResp(Empty, Absent), StrResp(TxtTests) }

DocumentationResponses ==
    { NoneResp, ExcResp, StrResp(TxtBlank), DictResp(Absent, TxtDocs), StrResp(TxtDocs) }

(***************************************************************************)
(* Conversation context and follow-up detection                            *)
(***************************************************************************)
\* context = None: no context is given.
NoneContext == [none |-> TRUE]

\* The conversation context of a new session and after "Clear Results".
NoContext ==
    [previous_prompts |-> <<>>, previous_results |-> [absent |-> TRUE],
     is_active |-> FALSE]

\* followup_keywords of _heuristic_followup_detection
followup_keywords ==
    << <<"c","h","a","n","g","e">>,
       <<"u","p","d","a","t","e">>,
       <<"m","o","d","i","f","y">>,
       <<"a","d","d">>,
       <<"r","e","m","o","v","e">>,
       <<"a","l","s","o">>,
       <<"i","n","s","t","e","a","d">>,
       <<"m","a","k","e"," ","i","t">>,
       <<"c","a","n"," ","y","o","u">>,
       <<"p","l","e","a","s","e">>,
       <<"t","h","e"," ","c","o","d","e">>,
       <<"t","h","e"," ","p","r","e","v","i","o","u","s">>,
       <<"a","b","o","v","e">>,
       <<"t","h","a","t">>,
       <<"i","t">>,
       <<"t","h","i","s">>,
       <<"s","a","m","e">>,
       <<"k","e","e","p">>,
       <<"m","a","i","n","t","a","i","n">> >>

\* The explicit references to the previous context.
followup_references ==
    { <<"p","r","e","v","i","o","u","s">>,
      <<"a","b","o","v","e">>,
      <<"t","h","a","t"," ","c","o","d","e">>,
      <<"t","h","e"," ","c","o","d","e">>,
      <<"s","a","m","e">> }

\* 'FOLLOWUP' and 'FOLLOW-UP'
TokFollowup == <<"F","O","L","L","O","W","U","P">>
TokFollowUpHyphen == <<"F","O","L","L","O","W","-","U","P">>

\* Variant: the length is taken before trimming.
heuristic_followup_detection_untrimmed(new_prompt, previous_prompt) ==
    LET new_lower == ToLower(new_prompt)
        keyword_count ==
            Cardinality({ i \in DOMAIN followup_keywords :
                            Contains(new_lower, followup_keywords[i]) })
    IN IF Len(new_prompt) < 50 /\ keyword_count > 0 THEN TRUE
       ELSE IF keyword_count >= 2 THEN TRUE
       ELSE \E ref \in followup_references : Contains(new_lower, ref)

\* _heuristic_followup_detection (previous_prompt is lower-cased and not
\* used).
heuristic_followup_detection(new_prompt, previous_prompt) ==
    LET new_lower == ToLower(new_prompt)
        keyword_count ==
            Cardinality({ i \in DOMAIN followup_keywords :
                            Contains(new_lower, followup_keywords[i]) })
    IN IF Len(Strip(new_prompt)) < 50 /\ keyword_count > 0 THEN TRUE
       ELSE IF keyword_count >= 2 THEN TRUE
       ELSE \E ref \in followup_references : Contains(new_lower, ref)

\* `if response:' for what generate_reply returned: None, '' and {} are
\* falsy.
ResponseTruthy(r) ==
    \/ r.kind = "str" /\ r.body # Empty
    \/ r.kind = "dict" /\ (r.body # Absent \/ r.alt # Absent)

\* Variant: only the token without the hyphen counts.
detect_follow_up_one_token(new_prompt, previous_context, response) ==
    IF ~previous_context.is_active \/ previous_context.previous_prompts = <<>>
    THEN [is_followup |-> FALSE, calls |-> 0]
    ELSE LET prompts == previous_context.previous_prompts
             previous_prompt == prompts[Len(prompts)]
             content == Upper(Strip(ContentOf(response)))
         IN [is_followup |->
                IF response.kind = "exc" \/ ~ResponseTruthy(response)
                THEN heuristic_followup_detection(new_prompt, previous_prompt)
                ELSE IF response.kind = "dict" /\ response.body = None
                THEN heuristic_followup_detection(new_prompt, previous_prompt)
                ELSE Contains(content, TokFollowup),
             calls |-> 1]

\* detect_follow_up, given what the classifier model answers if it is
\* asked.  calls: the number of model calls made.  The exception of the
\* model call and the AttributeError of None.strip(), for a dict whose
\* content is None, end in the same except clause.
detect_follow_up(new_prompt, previous_context, response) ==
    IF ~previous_context.is_active \/ previous_context.previous_prompts = <<>>
    THEN [is_followup |-> FALSE, calls |-> 0]
    ELSE LET prompts == previous_context.previous_prompts
             previous_prompt == prompts[Len(prompts)]
             content == Upper(Strip(ContentOf(response)))
         IN [is_followup |->
                IF response.kind = "exc" \/ ~ResponseTruthy(response)
                THEN heuristic_followup_detection(new_prompt, previous_prompt)
                ELSE IF response.kind = "dict" /\ response.body = None
                THEN heuristic_followup_detection(new_prompt, previous_prompt)
                ELSE Contains(content, TokFollowup)
                        \/ Contains(content, TokFollowUpHyphen),
             calls |-> 1]

\* Python truthiness of previous_results and of its "requirements": None is
\* falsy, a record is truthy.
Given(d) == d # [absent |-> TRUE]

\* seq[:n]
Take(seq, n) == SubSeq(seq, 1, IF Len(seq) < n THEN Len(seq) ELSE n)

\* The literal parts of the context section of analyze.
TxtContextHeader == <<"\n","\n","P","R","E","V","I","O","U","S"," ","C","O","N","T","E","X","T",":","\n">>
TxtPreviousPrompt == <<"P","r","e","v","i","o","u","s"," ","p","r","o","m","p","t","(","s",")",":"," ">>
TxtPreviousRequirements == <<"P","r","e","v","i","o","u","s"," ","f","u","n","c","t","i","o","n","a","l"," ","r","e","q","u","i","r","e","m","e","n","t","s",":"," ">>
TxtPreviousCode == <<"P","r","e","v","i","o","u","s"," ","c","o","d","e"," ","s","u","m","m","a","r","y",":"," ">>
TxtContextFooter == <<"\n","T","h","i","s"," ","i","s"," ","a"," ","f","o","l","l","o","w","-","u","p"," ","r","e","q","u","e","s","t","."," ","P","l","e","a","s","e"," ","u","p","d","a","t","e","/","m","o","d","i","f","y"," ","t","h","e"," ","r","e","q","u","i","r","e","m","e","n","t","s"," ","b","a","s","e","d"," ","o","n"," ","t","h","e"," ","n","e","w"," ","i","n","p","u","t"," ","w","h","i","l","e"," ","m","a","i","n","t","a","i","n","i","n","g"," ","c","o","n","s","i","s","t","e","n","c","y"," ","w","i","t","h"," ","t","h","e"," ","p","r","e","v","i","o","u","s"," ","c","o","n","t","e","x","t",".","\n">>
TxtCommaSpace == <<","," ">>
TxtEllipsis == <<".",".",".">>
TxtNewline == <<"\n">>

\* Variant: the active flag of the context is not looked at.
ContextSectionIgnoresActive(ctx) ==
    IF ctx = NoneContext THEN Empty
    ELSE IF FALSE THEN Empty
    ELSE LET previous_prompts == ctx.previous_prompts
             previous_results == ctx.previous_results
             prev_reqs == previous_results.requirements
             prev_code == previous_results.code
             code_summary == IF Len(prev_code) > 200
                             THEN Take(prev_code, 200) \o TxtEllipsis
                             ELSE prev_code
         IN IF previous_prompts = <<>> /\ ~Given(previous_results) THEN Empty
            ELSE TxtContextHeader
                 \o (IF previous_prompts # <<>>
                     THEN TxtPreviousPrompt
                          \o previous_prompts[Len(previous_prompts)] \o TxtNewline
                     ELSE Empty)
                 \o (IF Given(previous_results) /\ Given(prev_reqs)
                     THEN TxtPreviousRequirements
                          \o Join(Take(prev_reqs.functional_requirements, 3),
                                  TxtCommaSpace)
                          \o TxtNewline
                     ELSE Empty)
                 \o (IF Given(previous_results) /\ Truthy(prev_code)
                     THEN TxtPreviousCode \o code_summary \o TxtNewline
                     ELSE Empty)
                 \o TxtContextFooter

\* context_section of analyze: empty unless a context is given, is active
\* and holds a previous prompt or previous results.
ContextSection(ctx) ==
    IF ctx = NoneContext THEN Empty
    ELSE IF ~ctx.is_active THEN Empty
    ELSE LET previous_prompts == ctx.previous_prompts
             previous_results == ctx.previous_results
             prev_reqs == previous_results.requirements
             prev_code == previous_results.code
             code_summary == IF Len(prev_code) > 200
                             THEN Take(prev_code, 200) \o TxtEllipsis
                             ELSE prev_code
         IN IF previous_prompts = <<>> /\ ~Given(previous_results) THEN Empty
            ELSE TxtContextHeader
                 \o (IF previous_prompts # <<>>
                     THEN TxtPreviousPrompt
                          \o previous_prompts[Len(previous_prompts)] \o TxtNewline
                     ELSE Empty)
                 \o (IF Given(previous_results) /\ Given(prev_reqs)
                     THEN TxtPreviousRequirements
                          \o Join(Take(prev_reqs.functional_requirements, 3),
                                  TxtCommaSpace)
                          \o TxtNewline
                     ELSE Empty)
                 \o (IF Given(previous_results) /\ Truthy(prev_code)
                     THEN TxtPreviousCode \o code_summary \o TxtNewline
                     ELSE Empty)
                 \o TxtContextFooter

\* The parts of the prompt of analyze that depend on its arguments.
AnalyzePrompt(input, ctx) ==
    [context_section |-> ContextSection(ctx), user_input |-> input]

\* Variant: a conversation classified as new is still handed to the run.
FollowUpDecisionKeepsContext(input, stored, response) ==
    IF stored.is_active
    THEN [is_followup |-> detect_follow_up(input, stored, response).is_followup,
          context |-> stored, stored |-> stored,
          calls |-> detect_follow_up(input, stored, response).calls]
    ELSE [is_followup |-> FALSE, context |-> NoneContext, stored |-> stored,
          calls |-> 0]

\* main(): the classification of the input and the context given to
\* execute_pipeline.  stored: the conversation context afterwards.
FollowUpDecision(input, stored, response) ==
    IF stored.is_active
    THEN LET detected == detect_follow_up(input, stored, response)
         IN IF detected.is_followup
            THEN [is_followup |-> TRUE, context |-> stored, stored |-> stored,
                  calls |-> detected.calls]
            ELSE [is_followup |-> FALSE, context |-> NoneContext,
                  stored |-> NoContext, calls |-> detected.calls]
    ELSE [is_followup |-> FALSE, context |-> NoneContext, stored |-> stored,
          calls |-> 0]

\* Variant: only a completed run joins the conversation.
UpdateContextIfCompleted(stored, input, res) ==
    IF res.status = "completed"
    THEN [previous_prompts |-> Append(stored.previous_prompts, input),
          previous_results |-> res,
          is_active |-> TRUE]
    ELSE stored

\* main() after the run: the prompt and the results join the conversation.
UpdateContext(stored, input, res) ==
    [previous_prompts |-> Append(stored.previous_prompts, input),
     previous_results |-> res,
     is_active |-> TRUE]

\* 'also add tests'
TxtInputFollow == <<"a","l","s","o"," ","a","d","d"," ","t","e","s","t","s">>
\* ' followup\n' and 'NEW'
TxtFollowupWs == <<" ","f","o","l","l","o","w","u","p","\n">>
TxtNew == <<"N","E","W">>

\* What the classifier model can answer.
FollowUpResponses ==
    { NoneResp, ExcResp, StrResp(Empty), StrResp(TxtNew),
      StrResp(TokFollowUpHyphen), DictResp(TxtFollowupWs, Absent) }

(***************************************************************************)
(* State                                                                   *)
(***************************************************************************)
VARIABLES
    pc,               \* where main() / execute_pipeline is
    user_input,       \* the text of the requirements box
    stop_requested,   \* st.session_state.stop_requested
    results,          \* st.session_state.results
    \* the run state of execute_pipeline
    requirements, code, review_feedback, iterations, status, error,
    test_cases, documentation,
    loop_state,       \* state of the review loop
    \* the stage operation in progress
    stage,            \* which agent method is running
    args,             \* its arguments
    attempt,          \* the loop variable of its retry loop
    last_error,       \* its last_error
    ret,              \* its outcome, once it has returned or raised
    \* observations
    inv_log,          \* the model responses of this invocation, in order
    slept,            \* the time.sleep arguments of this invocation, in order
    reviews_done,     \* number of reviews that have returned in this run
    progress_log,     \* the percentages given to progress_callback in this run
    \* the widgets update_progress writes
    progress_bar, status_text,
    \* the conversation: st.session_state.conversation_context, and what the
    \* Generate handler made of it
    conversation_context,
    context,          \* the context argument of execute_pipeline
    is_followup,      \* is_followup of main()
    detect_calls,     \* model calls made by detect_follow_up in this handler
    probe,            \* the last direct call of a function and its result
    calls             \* concurrent invocations of generate_code, by caller

runVars == <<requirements, code, review_feedback, iterations, status, error,
             test_cases, documentation, loop_state>>
invVars == <<stage, args, attempt, last_error, ret, inv_log, slept>>
progVars == <<progress_log, progress_bar, status_text>>
sessVars == <<conversation_context, context, is_followup, detect_calls>>
vars == <<pc, user_input, stop_requested, results, runVars, invVars, reviews_done,
          progVars, sessVars, probe, calls>>

\* Variant: one attempt too many.
max_retries_off_by_one == 3 + 1

\* max_retries = 3 of every agent method.
max_retries == 3

\* The run state before any stage completed.
NoRequirements == [absent |-> TRUE]
NoResults == [absent |-> TRUE]

\* The outcome of a stage operation.
Pending == [kind |-> "pending"]
Returned(v) == [kind |-> "ok", value |-> v]
Raised(e) == [kind |-> "raise", error |-> e]

\* No error message; no exception caught so far.
NoError == [stage |-> "none", attempts |-> 0, cause |-> "none"]
NoCause == "none"

NoArgs ==
    [user_input |-> None, context |-> NoneContext, feedback |-> None,
     previous_code |-> None, code |-> None]

\* The status text before update_progress wrote to it: st.empty().
NoStatusText == [kind |-> "empty", message |-> "none"]

\* No direct call was made.
NoProbe == [fn |-> "none"]

TypeOK ==
    /\ pc \in {"idle", "start", "analyze", "generate", "review", "tests",
               "docs", "returned", "finished", "unit"}
    /\ stop_requested \in BOOLEAN
    /\ iterations \in 0..(MAX_ITERATIONS + 1)
    /\ status \in {"none", "running", "completed", "stopped", "failed", "error"}
    /\ loop_state \in {"none", "Generating", "Reviewing", "Approved", "IterationCapReached"}
    /\ stage \in {"none", "analyze", "generate", "review", "tests", "docs"}
    /\ attempt \in 0..max_retries
    /\ ret.kind \in {"pending", "ok", "raise"}
    /\ progress_bar \in 0..100
    /\ status_text.kind \in {"empty", "info", "success"}
    /\ conversation_context.is_active \in BOOLEAN
    /\ is_followup \in BOOLEAN
    /\ detect_calls \in 0..1

Init ==
    /\ pc = "idle"
    /\ user_input = Empty
    /\ stop_requested = FALSE
    /\ results = NoResults
    /\ requirements = NoRequirements
    /\ code = Empty
    /\ review_feedback = <<>>
    /\ iterations = 0
    /\ status = "none"
    /\ error = NoError
    /\ test_cases = Empty
    /\ documentation = Empty
    /\ loop_state = "none"
    /\ stage = "none"
    /\ args = NoArgs
    /\ attempt = 0
    /\ last_error = NoCause
    /\ ret = Pending
    /\ inv_log = <<>>
    /\ slept = <<>>
    /\ reviews_done = 0
    /\ progress_log = <<>>
    /\ progress_bar = 0
    /\ status_text = NoStatusText
    /\ conversation_context = NoContext
    /\ context = NoneContext
    /\ is_followup = FALSE
    /\ detect_calls = 0
    /\ probe = NoProbe
    /\ calls = <<>>

(***************************************************************************)
(* The retry loop of the agent methods                                     *)
(***************************************************************************)
\* Variant: a failed attempt gives up at once when a stop was requested.
RetryOrRaiseUnlessStopped(cause, viaExcept) ==
    IF attempt < max_retries - 1 /\ ~stop_requested
    THEN /\ attempt' = attempt + 1
         /\ slept' = Append(slept, 2 ^ attempt)
         /\ last_error' = IF viaExcept THEN cause ELSE last_error
         /\ ret' = Pending
    ELSE /\ ret' = Raised([stage |-> stage, attempts |-> max_retries, cause |-> cause])
         /\ last_error' = cause
         /\ UNCHANGED <<attempt, slept>>

\* A failed attempt: sleep 2 ** attempt and continue while attempts remain;
\* on the last attempt the except clause raises ValueError carrying
\* max_retries and str(e).  viaExcept: the attempt failed by an exception,
\* which the except clause stores in last_error before it sleeps.
RetryOrRaise(cause, viaExcept) ==
    IF attempt < max_retries - 1
    THEN /\ attempt' = attempt + 1
         /\ slept' = Append(slept, 2 ^ attempt)
         /\ last_error' = IF viaExcept THEN cause ELSE last_error
         /\ ret' = Pending
    ELSE /\ ret' = Raised([stage |-> stage, attempts |-> max_retries, cause |-> cause])
         /\ last_error' = cause
         /\ UNCHANGED <<attempt, slept>>

\* An exception raised outside the try of the retry loop leaves the method
\* as it is: no attempt count, no retry.
EscapeWith(exception) ==
    /\ ret' = Raised([stage |-> stage, attempts |-> 0, cause |-> exception])
    /\ UNCHANGED <<attempt, slept, last_error>>

\* break: the loop ends with a value.
Succeed(v) ==
    /\ ret' = Returned(v)
    /\ UNCHANGED <<attempt, slept, last_error>>

\* Variant: whitespace counts as text.
IsBlankNoStrip(x) == ~Truthy(x)

\* `if not x or not x.strip()'
IsBlank(x) == ~Truthy(x) \/ Strip(x) = Empty

\* One iteration of the retry loop of RequirementAnalysisAgent.analyze, and
\* on break the rest of the method, for the given answers of the model.
analyze(responses) ==
    /\ stage = "analyze"
    /\ ret = Pending
    /\ \E response \in responses :
        /\ inv_log' = Append(inv_log, response)
        /\ IF response.kind = "exc" THEN RetryOrRaise("exception", TRUE)
           ELSE IF response.kind = "none" THEN RetryOrRaise("none_response", FALSE)
           ELSE LET content == ContentOf(response)
                IN IF IsBlank(content) THEN RetryOrRaise("empty_response", FALSE)
                   ELSE LET ambiguity_info == detect_ambiguity(args.user_input)
                            built == AnalysisRecord(content, args.user_input,
                                                    ambiguity_info)
                        IN IF built = TypeError
                           THEN EscapeWith("TypeError")
                           ELSE Succeed(built)

\* analyze, called by the pipeline.
AnalyzeAttempt ==
    /\ analyze(AnalyzeResponses)
    /\ UNCHANGED <<pc, user_input, stop_requested, results, runVars, stage, args,
                   reviews_done, progVars, sessVars, probe, calls>>

\* The opening lines and section headings of the prompts of generate_code.
TxtConvert == <<"C","o","n","v","e","r","t"," ","t","h","e"," ","f","o","l","l","o","w","i","n","g"," ","r","e","f","i","n","e","d"," ","r","e","q","u","i","r","e","m","e","n","t","s">>
TxtModify == <<"M","o","d","i","f","y"," ","t","h","e"," ","f","o","l","l","o","w","i","n","g"," ","e","x","i","s","t","i","n","g"," ","c","o","d","e">>
TxtReviewFeedbackHeading == <<"R","E","V","I","E","W"," ","F","E","E","D","B","A","C","K"," ","(","a","d","d","r","e","s","s"," ","t","h","e","s","e"," ","i","s","s","u","e","s",")",":","\n">>
TxtPreviousCodeHeading == <<"P","R","E","V","I","O","U","S"," ","C","O","D","E",":","\n">>

\* Variant: the previous code is looked at before the feedback.
GeneratePromptCodeFirst(a) ==
    IF Truthy(a.previous_code)
    THEN [opening |-> TxtModify, feedback_section |-> Empty,
          previous_code_section |-> TxtPreviousCodeHeading \o a.previous_code]
    ELSE IF Truthy(a.feedback)
    THEN [opening |-> TxtConvert,
          feedback_section |-> TxtReviewFeedbackHeading \o a.feedback,
          previous_code_section |-> Empty]
    ELSE [opening |-> TxtConvert, feedback_section |-> Empty,
          previous_code_section |-> Empty]

\* The prompt of generate_code, as far as it depends on feedback and
\* previous_code: `if feedback:', `elif previous_code:', `else'.
GeneratePrompt(a) ==
    IF Truthy(a.feedback)
    THEN [opening |-> TxtConvert,
          feedback_section |-> TxtReviewFeedbackHeading \o a.feedback,
          previous_code_section |-> Empty]
    ELSE IF Truthy(a.previous_code)
    THEN [opening |-> TxtModify, feedback_section |-> Empty,
          previous_code_section |-> TxtPreviousCodeHeading \o a.previous_code]
    ELSE [opening |-> TxtConvert, feedback_section |-> Empty,
          previous_code_section |-> Empty]

\* One iteration of the retry loop of CodingAgent.generate_code, and on
\* break the rest of the method.
generate_code(responses) ==
    /\ stage = "generate"
    /\ ret = Pending
    /\ \E response \in responses :
        /\ inv_log' = Append(inv_log, response)
        /\ IF response.kind = "exc" THEN RetryOrRaise("exception", TRUE)
           ELSE IF response.kind = "none" THEN RetryOrRaise("none_response", FALSE)
           ELSE LET generated == ContentOrText(response)
                IN IF IsBlank(generated) THEN RetryOrRaise("empty_response", FALSE)
                   ELSE Succeed(ExtractGenerated(generated))

\* generate_code, called by the pipeline.
GenerateAttempt ==
    /\ generate_code(GenerateResponses)
    /\ UNCHANGED <<pc, user_input, stop_requested, results, runVars, stage, args,
                   reviews_done, progVars, sessVars, probe, calls>>

\* Variant: APPROVED anywhere in the feedback.
IsApprovedAnywhere(feedback) == Contains(Upper(feedback), TokApproved)

\* is_approved of CodeReviewAgent.review
IsApproved(feedback) == StartsWith(Upper(feedback), TokApproved)

\* Variant: the feedback is returned in upper case.
ReviewResultUpper(response) ==
    LET feedback == Strip(ContentOf(response))
    IN [is_approved |-> IsApproved(feedback), feedback |-> Upper(feedback)]

\* What review returns for a response that is not None.
ReviewResult(response) ==
    LET feedback == Strip(ContentOf(response))
    IN [is_approved |-> IsApproved(feedback), feedback |-> feedback]

\* One iteration of the retry loop of CodeReviewAgent.review, and on break
\* the rest of the method.  The method has no last_error and no test for an
\* empty response.
ReviewAttempt ==
    /\ stage = "review"
    /\ ret = Pending
    /\ \E response \in ReviewResponses :
        /\ inv_log' = Append(inv_log, response)
        /\ IF response.kind = "exc" THEN RetryOrRaise("exception", FALSE)
           ELSE IF response.kind = "none" THEN RetryOrRaise("none_response", FALSE)
           ELSE Succeed(ReviewResult(response))
    /\ reviews_done' = IF ret'.kind = "ok" THEN reviews_done + 1 ELSE reviews_done
    /\ UNCHANGED <<pc, user_input, stop_requested, results, runVars, stage, args,
                   progVars, sessVars, probe, calls>>

\* One iteration of the retry loop of TestGenerationAgent.generate_tests.
GenerateTestsAttempt ==
    /\ stage = "tests"
    /\ ret = Pending
    /\ \E response \in TestResponses :
        /\ inv_log' = Append(inv_log, response)
        /\ IF response.kind = "exc" THEN RetryOrRaise("exception", TRUE)
           ELSE IF response.kind = "none" THEN RetryOrRaise("none_response", FALSE)
           ELSE LET received == ContentOrText(response)
                IN IF IsBlank(received) THEN RetryOrRaise("empty_response", FALSE)
                   ELSE LET test_code == ExtractTests(received)
                        IN IF IsBlank(test_code)
                           THEN RetryOrRaise("empty_response", FALSE)
                           ELSE Succeed(test_code)
    /\ UNCHANGED <<pc, user_input, stop_requested, results, runVars, stage, args,
                   reviews_done, progVars, sessVars, probe, calls>>

\* One iteration of the retry loop of
\* DocumentationAgent.generate_documentation.
GenerateDocumentationAttempt ==
    /\ stage = "docs"
    /\ ret = Pending
    /\ \E response \in DocumentationResponses :
        /\ inv_log' = Append(inv_log, response)
        /\ IF response.kind = "exc" THEN RetryOrRaise("exception", TRUE)
           ELSE IF response.kind = "none" THEN RetryOrRaise("none_response", FALSE)
           ELSE LET text == ContentOf(response)
                IN IF IsBlank(text) THEN RetryOrRaise("empty_response", FALSE)
                   ELSE Succeed(text)
    /\ UNCHANGED <<pc, user_input, stop_requested, results, runVars, stage, args,
                   reviews_done, progVars, sessVars, probe, calls>>

(***************************************************************************)
(* Orchestrator.execute_pipeline: analyze -> review loop -> tests -> docs   *)
(***************************************************************************)
\* The orchestrator calls an agent method.
CallStage(s, a) ==
    /\ stage' = s
    /\ args' = a
    /\ attempt' = 0
    /\ last_error' = NoCause
    /\ ret' = Pending
    /\ inv_log' = <<>>
    /\ slept' = <<>>

\* execute_pipeline returns to main with the given terminal status.
Finish(st, err) ==
    /\ status' = st
    /\ error' = err
    /\ pc' = "returned"
    /\ stage' = "none"
    /\ UNCHANGED <<args, attempt, last_error, ret, inv_log, slept>>

\* Variant: a failure discards the code generated so far.
FailLosesCode ==
    /\ Finish("failed", ret.error)
    /\ code' = Empty
    /\ UNCHANGED <<requirements, review_feedback, iterations,
                   test_cases, documentation, loop_state, progVars>>

\* Variant: a stage that raised is called again.
FailRetriesStage ==
    /\ CallStage(stage, args)
    /\ UNCHANGED <<pc, status, error, requirements, code, review_feedback,
                   iterations, test_cases, documentation, loop_state, progVars>>

\* A stage raised: the pipeline halts with status "failed" and the message.
Fail ==
    /\ Finish("failed", ret.error)
    /\ UNCHANGED <<requirements, code, review_feedback, iterations,
                   test_cases, documentation, loop_state, progVars>>

\* Variant: the stop flag is never seen.
check_stop_never == FALSE

\* check_stop() of main(), passed to execute_pipeline as stop_check.
check_stop == stop_requested

\* The Stop button: sets the flag that stop_check polls.
RequestStop ==
    /\ pc \in {"start", "analyze", "generate", "review", "tests", "docs"}
    /\ ~stop_requested
    /\ stop_requested' = TRUE
    /\ UNCHANGED <<pc, user_input, results, runVars, invVars, reviews_done,
                   progVars, sessVars, probe, calls>>

\* main(): the Generate button with a valid input resets the stop flag and
\* calls execute_pipeline.
GenerateClicked(inputs) ==
    /\ pc = "idle"
    /\ \E input \in inputs, response \in FollowUpResponses :
        LET decision == FollowUpDecision(input, conversation_context, response)
        IN /\ user_input' = input
           /\ is_followup' = decision.is_followup
           /\ context' = decision.context
           /\ conversation_context' = decision.stored
           /\ detect_calls' = decision.calls
           /\ results' = IF decision.is_followup THEN results ELSE NoResults
    /\ stop_requested' = FALSE
    /\ progress_bar' = 0
    /\ status_text' = NoStatusText
    /\ progress_log' = <<>>
    /\ pc' = "start"
    /\ UNCHANGED <<runVars, invVars, reviews_done, probe, calls>>

\* The Generate button, for the requests of a single run.
MainGenerate == GenerateClicked(UserInputs)

\* Variant: the boundary before the documentation repeats the percentage of
\* the boundary before it.
ProgressPercentRepeats(k) == (100 * (IF k = 4 THEN 3 ELSE k)) \div 5

\* The percentage reported at the k-th of the five stage boundaries.
ProgressPercent(k) == (100 * k) \div 5

\* update_progress of main(), passed to execute_pipeline as
\* progress_callback.
update_progress(progress, message) ==
    /\ progress_bar' = progress
    /\ status_text' = [kind |-> IF progress < 100 THEN "info" ELSE "success",
                       message |-> message]

\* execute_pipeline reports the k-th stage boundary to progress_callback.
ReportProgress(k, message) ==
    /\ progress_log' = Append(progress_log, ProgressPercent(k))
    /\ update_progress(ProgressPercent(k), message)

\* execute_pipeline creates the run state, polls stop_check and starts the
\* analysis.
StartPipeline ==
    /\ pc = "start"
    /\ requirements' = NoRequirements
    /\ code' = Empty
    /\ review_feedback' = <<>>
    /\ iterations' = 0
    /\ test_cases' = Empty
    /\ documentation' = Empty
    /\ loop_state' = "none"
    /\ reviews_done' = 0
    /\ IF check_stop
       THEN /\ Finish("stopped", NoError)
            /\ UNCHANGED progVars
       ELSE /\ status' = "running"
            /\ error' = NoError
            /\ pc' = "analyze"
            /\ CallStage("analyze", [NoArgs EXCEPT !.user_input = user_input,
                                                   !.context = context])
            /\ ReportProgress(1, "analyze")
    /\ UNCHANGED <<user_input, stop_requested, results, sessVars, probe, calls>>

\* The first generation of the review loop: no feedback; the code of the
\* previous run if the input is a follow-up.
EnterLoop ==
    /\ iterations' = 1
    /\ loop_state' = "Generating"
    /\ pc' = "generate"
    /\ CallStage("generate",
                 IF context = NoneContext THEN NoArgs
                 ELSE [NoArgs EXCEPT !.previous_code = context.previous_results.code])
    /\ ReportProgress(2, "generate")

\* analyze returned or raised.
AfterAnalyze ==
    /\ pc = "analyze"
    /\ ret # Pending
    /\ IF ret.kind = "raise" THEN Fail
       ELSE /\ requirements' = ret.value
            /\ IF check_stop
               THEN /\ Finish("stopped", NoError)
                    /\ UNCHANGED <<iterations, loop_state, progVars>>
               ELSE /\ EnterLoop
                    /\ UNCHANGED <<status, error>>
            /\ UNCHANGED <<code, review_feedback, test_cases, documentation>>
    /\ UNCHANGED <<user_input, stop_requested, results, reviews_done, sessVars,
                   probe, calls>>

\* Variant: the generated code goes to the tests without a review.
AfterGenerateSkipsReview ==
    /\ pc = "generate"
    /\ ret # Pending
    /\ IF ret.kind = "raise" THEN Fail
       ELSE /\ code' = ret.value
            /\ loop_state' = "Reviewing"
            /\ pc' = "tests"
            /\ CallStage("tests", [NoArgs EXCEPT !.code = ret.value])
            /\ UNCHANGED <<requirements, review_feedback, iterations, status,
                           error, test_cases, documentation, progVars>>
    /\ UNCHANGED <<user_input, stop_requested, results, reviews_done, sessVars,
                   probe, calls>>

\* generate_code returned or raised: Generating -> Reviewing.
AfterGenerate ==
    /\ pc = "generate"
    /\ ret # Pending
    /\ IF ret.kind = "raise" THEN Fail
       ELSE /\ code' = ret.value
            /\ loop_state' = "Reviewing"
            /\ pc' = "review"
            /\ CallStage("review", [NoArgs EXCEPT !.code = ret.value])
            /\ UNCHANGED <<requirements, review_feedback, iterations, status,
                           error, test_cases, documentation, progVars>>
    /\ UNCHANGED <<user_input, stop_requested, results, reviews_done, sessVars,
                   probe, calls>>

\* Variant: the loop generates again after it ended.
LeaveLoopRegenerates(final) ==
    /\ loop_state' = final
    /\ pc' = "generate"
    /\ CallStage("generate", NoArgs)
    /\ UNCHANGED <<status, error, iterations, progVars>>

\* The review loop ended (Approved or IterationCapReached): poll stop_check
\* and go on to the tests.
LeaveLoop(final) ==
    /\ loop_state' = final
    /\ IF check_stop
       THEN /\ Finish("stopped", NoError)
            /\ UNCHANGED progVars
       ELSE /\ pc' = "tests"
            /\ CallStage("tests", [NoArgs EXCEPT !.code = code])
            /\ ReportProgress(3, "tests")
            /\ UNCHANGED <<status, error>>
    /\ UNCHANGED iterations

\* Variant: one round more than the cap.
BelowCapInclusive(n) == n <= MAX_ITERATIONS

\* The cap test of the review loop.
BelowCap(n) == n < MAX_ITERATIONS

\* Variant: the history keeps only the newest feedback.
RecordFeedbackOverwrite(history, feedback) == <<feedback>>

\* The feedback history after one more review.
RecordFeedback(history, feedback) == Append(history, feedback)

\* review returned or raised: Reviewing -> Approved, Generating or
\* IterationCapReached.
AfterReview ==
    /\ pc = "review"
    /\ ret # Pending
    /\ IF ret.kind = "raise" THEN Fail
       ELSE /\ review_feedback' = RecordFeedback(review_feedback, ret.value.feedback)
            /\ IF ret.value.is_approved THEN LeaveLoop("Approved")
               ELSE IF BelowCap(iterations)
               THEN /\ iterations' = iterations + 1
                    /\ loop_state' = "Generating"
                    /\ pc' = "generate"
                    /\ CallStage("generate",
                                 [NoArgs EXCEPT !.feedback = ret.value.feedback,
                                                !.previous_code = code])
                    /\ UNCHANGED <<status, error, progVars>>
               ELSE LeaveLoop("IterationCapReached")
            /\ UNCHANGED <<requirements, code, test_cases, documentation>>
    /\ UNCHANGED <<user_input, stop_requested, results, reviews_done, sessVars,
                   probe, calls>>

\* generate_tests returned or raised.
AfterTests ==
    /\ pc = "tests"
    /\ ret # Pending
    /\ IF ret.kind = "raise" THEN Fail
       ELSE /\ test_cases' = ret.value
            /\ IF check_stop
               THEN /\ Finish("stopped", NoError)
                    /\ UNCHANGED progVars
               ELSE /\ pc' = "docs"
                    /\ CallStage("docs", [NoArgs EXCEPT !.code = code])
                    /\ ReportProgress(4, "docs")
                    /\ UNCHANGED <<status, error>>
            /\ UNCHANGED <<requirements, code, review_feedback, iterations,
                           documentation, loop_state>>
    /\ UNCHANGED <<user_input, stop_requested, results, reviews_done, sessVars,
                   probe, calls>>

\* generate_documentation returned or raised.
AfterDocumentation ==
    /\ pc = "docs"
    /\ ret # Pending
    /\ IF ret.kind = "raise" THEN Fail
       ELSE /\ documentation' = ret.value
            /\ IF check_stop
               THEN /\ Finish("stopped", NoError)
                    /\ UNCHANGED progVars
               ELSE /\ Finish("completed", NoError)
                    /\ ReportProgress(5, "completed")
            /\ UNCHANGED <<requirements, code, review_feedback, iterations,
                           test_cases, loop_state>>
    /\ UNCHANGED <<user_input, stop_requested, results, reviews_done, sessVars,
                   probe, calls>>

\* The record execute_pipeline returns.
RunResult ==
    [requirements |-> requirements, code |-> code,
     review_feedback |-> review_feedback, iterations |-> iterations,
     status |-> status, error |-> error,
     test_cases |-> test_cases, documentation |-> documentation]

\* main() after execute_pipeline returned: stores the results, clears the
\* stop flag and updates the conversation context.
MainStoreResults ==
    /\ pc = "returned"
    /\ results' = RunResult
    /\ stop_requested' = FALSE
    /\ conversation_context' = UpdateContext(conversation_context, user_input, RunResult)
    /\ pc' = "finished"
    /\ UNCHANGED <<user_input, runVars, invVars, reviews_done, progVars,
                   context, is_followup, detect_calls, probe, calls>>

Next ==
    \/ MainGenerate
    \/ RequestStop
    \/ StartPipeline
    \/ AnalyzeAttempt
    \/ AfterAnalyze
    \/ GenerateAttempt
    \/ AfterGenerate
    \/ ReviewAttempt
    \/ AfterReview
    \/ GenerateTestsAttempt
    \/ AfterTests
    \/ GenerateDocumentationAttempt
    \/ AfterDocumentation
    \/ MainStoreResults

Spec == Init /\ [][Next]_vars

(***************************************************************************)
(* A run in which every model call returns or raises                       *)
(***************************************************************************)
\* The answers followed to the end of a run: None, an exception, blank and
\* empty text, and one answer with text for each stage (two for the review).
RunResponses ==
    { NoneResp, ExcResp, StrResp(TxtBlank), StrResp(Empty),
      StrResp(TxtPayloadFull), StrResp(TxtRawCode), StrResp(TxtApproved),
      StrResp(TxtNotApproved), StrResp(TxtTests), StrResp(TxtDocs) }

\* The model call of an attempt gave one of these answers.
Answered == inv_log'[Len(inv_log')] \in RunResponses

\* The Generate button with one input.
RunGenerate == GenerateClicked({TxtInputPy})

RunAnalyzeAttempt == AnalyzeAttempt /\ Answered
RunGenerateAttempt == GenerateAttempt /\ Answered
RunReviewAttempt == ReviewAttempt /\ Answered
RunTestsAttempt == GenerateTestsAttempt /\ Answered
RunDocumentationAttempt == GenerateDocumentationAttempt /\ Answered

\* The steps of execute_pipeline and of the agent methods: synchronous
\* code with no wait but the model call and time.sleep.
PipelineStep ==
    \/ StartPipeline
    \/ RunAnalyzeAttempt
    \/ AfterAnalyze
    \/ RunGenerateAttempt
    \/ AfterGenerate
    \/ RunReviewAttempt
    \/ AfterReview
    \/ RunTestsAttempt
    \/ AfterTests
    \/ RunDocumentationAttempt
    \/ AfterDocumentation

NextRun ==
    \/ RunGenerate
    \/ RequestStop
    \/ StartPipeline
    \/ RunAnalyzeAttempt
    \/ AfterAnalyze
    \/ RunGenerateAttempt
    \/ AfterGenerate
    \/ RunReviewAttempt
    \/ AfterReview
    \/ RunTestsAttempt
    \/ AfterTests
    \/ RunDocumentationAttempt
    \/ AfterDocumentation
    \/ MainStoreResults

\* Every model call returns or raises and every sleep ends, so the step the
\* run is at is taken; the clicks on Generate and Stop are the user's.
SpecRun == Init /\ [][NextRun]_vars /\ WF_vars(PipelineStep)

(***************************************************************************)
(* analyze and generate_code called on their own, on more answers          *)
(***************************************************************************)
\* 'read the input and handle each error on any platform in time'
TxtLongSpecified == <<"r","e","a","d"," ","t","h","e"," ","i","n","p","u","t"," ","a","n","d"," ","h","a","n","d","l","e"," ","e","a","c","h"," ","e","r","r","o","r"," ","o","n"," ","a","n","y"," ","p","l","a","t","f","o","r","m"," ","i","n"," ","t","i","m","e">>

\* The inputs of a caller of analyze: two short ones, and a long one that
\* names every topic of the pre-check.
UnitInputs == UserInputs \cup {TxtLongSpecified}

\* A caller calls analyze.
UnitCallAnalyze ==
    /\ pc = "idle"
    /\ pc' = "unit"
    /\ \E input \in UnitInputs :
        CallStage("analyze", [NoArgs EXCEPT !.user_input = input])
    /\ UNCHANGED <<user_input, stop_requested, results, runVars, reviews_done,
                   progVars, sessVars, probe, calls>>

\* The feedback and previous_code arguments of a caller: left out, empty,
\* and a text.
UnitFeedbacks == { None, Empty, TxtBlank, TxtNotApproved }
UnitPreviousCodes == { None, Empty, TxtRawCode }

\* A caller calls generate_code.
UnitCallGenerate ==
    /\ pc = "idle"
    /\ pc' = "unit"
    /\ \E feedback \in UnitFeedbacks, previous_code \in UnitPreviousCodes :
        CallStage("generate", [NoArgs EXCEPT !.feedback = feedback,
                                             !.previous_code = previous_code])
    /\ UNCHANGED <<user_input, stop_requested, results, runVars, reviews_done,
                   progVars, sessVars, probe, calls>>

AnalyzeAttemptWide ==
    /\ pc = "unit"
    /\ analyze(AnalyzeResponsesWide)
    /\ UNCHANGED <<pc, user_input, stop_requested, results, runVars, stage, args,
                   reviews_done, progVars, sessVars, probe, calls>>

GenerateAttemptWide ==
    /\ pc = "unit"
    /\ generate_code(GenerateResponsesWide)
    /\ UNCHANGED <<pc, user_input, stop_requested, results, runVars, stage, args,
                   reviews_done, progVars, sessVars, probe, calls>>

\* The call returned or raised; the caller is free to call again.
UnitReturn ==
    /\ pc = "unit"
    /\ ret # Pending
    /\ pc' = "idle"
    /\ stage' = "none"
    /\ UNCHANGED <<user_input, stop_requested, results, runVars, args, attempt,
                   last_error, ret, inv_log, slept, reviews_done, progVars,
                   sessVars, probe, calls>>

NextUnit ==
    \/ UnitCallAnalyze
    \/ UnitCallGenerate
    \/ AnalyzeAttemptWide
    \/ GenerateAttemptWide
    \/ UnitReturn

SpecUnit == Init /\ [][NextUnit]_vars

(***************************************************************************)
(* The conversation over several prompts                                   *)
(***************************************************************************)
\* The longest conversation followed.
MaxPrompts == 2

\* The inputs of a conversation: two requests and a continuation.
SessionInputs == UserInputs \cup {TxtInputFollow}

\* What execute_pipeline can return, its stages taken together: a completed
\* run, and a run that failed in the analysis.
SessionOutcomes ==
    { [requirements |-> BuildRequirements(TxtPayloadFull, TxtInputPy),
       code |-> TxtRawCode, status |-> "completed", error |-> NoError],
      [requirements |-> NoRequirements,
       code |-> Empty, status |-> "failed",
       error |-> [stage |-> "analyze", attempts |-> max_retries,
                  cause |-> "none_response"]] }

\* main(): the Generate button, in a conversation of at most MaxPrompts
\* prompts.
SessionGenerate ==
    /\ Len(conversation_context.previous_prompts) < MaxPrompts
    /\ GenerateClicked(SessionInputs)

\* execute_pipeline, its stages taken together: the analysis is called with
\* the input and the context, and the run ends with some outcome.
SessionReturns(outcomes) ==
    /\ pc = "start"
    /\ args' = [NoArgs EXCEPT !.user_input = user_input, !.context = context]
    /\ \E outcome \in outcomes :
        /\ requirements' = outcome.requirements
        /\ code' = outcome.code
        /\ status' = outcome.status
        /\ error' = outcome.error
    /\ pc' = "returned"
    /\ UNCHANGED <<user_input, stop_requested, results, review_feedback,
                   iterations, test_cases, documentation, loop_state, stage,
                   attempt, last_error, ret, inv_log, slept, reviews_done,
                   progVars, sessVars, probe, calls>>

SessionRun == SessionReturns(SessionOutcomes)

\* execute_pipeline raises: one of the except clauses of main() clears the
\* stop flag and empties the progress bar and the status text, and the
\* script ends.
SessionRaise ==
    /\ pc = "start"
    /\ pc' = "idle"
    /\ stop_requested' = FALSE
    /\ progress_bar' = 0
    /\ status_text' = NoStatusText
    /\ UNCHANGED <<user_input, results, runVars, invVars, reviews_done,
                   progress_log, sessVars, probe, calls>>

\* main(): st.rerun() after the results were stored.
SessionRerun ==
    /\ pc = "finished"
    /\ pc' = "idle"
    /\ UNCHANGED <<user_input, stop_requested, results, runVars, invVars,
                   reviews_done, progVars, sessVars, probe, calls>>

\* main(): the Clear Results button, shown when there are results.
ClearResults ==
    /\ pc = "idle"
    /\ Given(results)
    /\ results' = NoResults
    /\ conversation_context' = NoContext
    /\ UNCHANGED <<pc, user_input, stop_requested, runVars, invVars,
                   reviews_done, progVars, context, is_followup, detect_calls,
                   probe, calls>>

\* Contexts a caller can hand to detect_follow_up and analyze: the empty
\* one, and an earlier conversation flagged inactive and flagged active.
EarlierConversation(active) ==
    [previous_prompts |-> <<TxtInputPy>>,
     previous_results |->
        [requirements |-> BuildRequirements(TxtPayloadFull, TxtInputPy),
         code |-> TxtRawCode, review_feedback |-> <<>>, iterations |-> 1,
         status |-> "completed", error |-> NoError,
         test_cases |-> TxtTests, documentation |-> TxtDocs],
     is_active |-> active]

CallerContexts ==
    { NoContext, EarlierConversation(FALSE), EarlierConversation(TRUE) }

\* detect_follow_up called on its own.
CallDetectFollowUp ==
    /\ pc = "idle"
    /\ \E input \in SessionInputs, ctx \in CallerContexts,
          response \in FollowUpResponses :
        probe' = [fn |-> "detect_follow_up", input |-> input, context |-> ctx,
                  result |-> detect_follow_up(input, ctx, response)]
    /\ UNCHANGED <<pc, user_input, stop_requested, results, runVars, invVars,
                   reviews_done, progVars, sessVars, calls>>

\* analyze called on its own, up to the request it builds.
CallAnalyze ==
    /\ pc = "idle"
    /\ \E input \in SessionInputs, ctx \in CallerContexts \cup {NoneContext} :
        probe' = [fn |-> "analyze", input |-> input, context |-> ctx,
                  request |-> AnalyzePrompt(input, ctx)]
    /\ UNCHANGED <<pc, user_input, stop_requested, results, runVars, invVars,
                   reviews_done, progVars, sessVars, calls>>

NextSession ==
    \/ SessionGenerate
    \/ SessionRun
    \/ MainStoreResults
    \/ SessionRerun
    \/ ClearResults
    \/ CallDetectFollowUp
    \/ CallAnalyze

SpecSession == Init /\ [][NextSession]_vars

(***************************************************************************)
(* The Generate handler around execute_pipeline, which returns or raises   *)
(***************************************************************************)
\* What execute_pipeline can return: also a run stopped after the analysis
\* and a run that ended with the status error.
HandlerOutcomes ==
    SessionOutcomes
        \cup { [requirements |-> BuildRequirements(TxtPayloadFull, TxtInputPy),
                code |-> Empty, status |-> "stopped", error |-> NoError],
               [requirements |-> NoRequirements,
                code |-> Empty, status |-> "error",
                error |-> [stage |-> "analyze", attempts |-> 1,
                           cause |-> "exception"]] }

HandlerRun == SessionReturns(HandlerOutcomes)

NextHandler ==
    \/ SessionGenerate
    \/ HandlerRun
    \/ SessionRaise
    \/ MainStoreResults
    \/ SessionRerun
    \/ ClearResults

SpecHandler == Init /\ [][NextHandler]_vars

(***************************************************************************)
(* The classifier and its heuristic called on their own                    *)
(***************************************************************************)
\* 'also add a square root button': 29 characters trimmed, 2 keyword(s)
TxtInputSqrt == <<"a","l","s","o"," ","a","d","d"," ","a"," ","s","q","u","a","r","e"," ","r","o","o","t"," ","b","u","t","t","o","n">>
\* 'please sum two numbers': 22 characters trimmed, 1 keyword(s)
TxtShortOneKeyword == <<"p","l","e","a","s","e"," ","s","u","m"," ","t","w","o"," ","n","u","m","b","e","r","s">>
\* 'a program for summing two numbers from a keyboard, in go': 56 characters trimmed, 0 keyword(s)
TxtLongPlain == <<"a"," ","p","r","o","g","r","a","m"," ","f","o","r"," ","s","u","m","m","i","n","g"," ","t","w","o"," ","n","u","m","b","e","r","s"," ","f","r","o","m"," ","a"," ","k","e","y","b","o","a","r","d",","," ","i","n"," ","g","o">>
\* 'a program for summing two numbers from a keyboard, please': 57 characters trimmed, 1 keyword(s)
TxtLongOneKeyword == <<"a"," ","p","r","o","g","r","a","m"," ","f","o","r"," ","s","u","m","m","i","n","g"," ","t","w","o"," ","n","u","m","b","e","r","s"," ","f","r","o","m"," ","a"," ","k","e","y","b","o","a","r","d",","," ","p","l","e","a","s","e">>
\* 'please remove the logging from our program for summing numbers': 62 characters trimmed, 2 keyword(s)
TxtLongTwoKeywords == <<"p","l","e","a","s","e"," ","r","e","m","o","v","e"," ","t","h","e"," ","l","o","g","g","i","n","g"," ","f","r","o","m"," ","o","u","r"," ","p","r","o","g","r","a","m"," ","f","o","r"," ","s","u","m","m","i","n","g"," ","n","u","m","b","e","r","s">>
\* 'a program for summing two numbers as in previous programs': 57 characters trimmed, 0 keyword(s)
TxtLongReference == <<"a"," ","p","r","o","g","r","a","m"," ","f","o","r"," ","s","u","m","m","i","n","g"," ","t","w","o"," ","n","u","m","b","e","r","s"," ","a","s"," ","i","n"," ","p","r","e","v","i","o","u","s"," ","p","r","o","g","r","a","m","s">>
\* 'a program for summing numbers from a keyboard also': 50 characters trimmed, 1 keyword(s)
TxtFiftyOneKeyword == <<"a"," ","p","r","o","g","r","a","m"," ","f","o","r"," ","s","u","m","m","i","n","g"," ","n","u","m","b","e","r","s"," ","f","r","o","m"," ","a"," ","k","e","y","b","o","a","r","d"," ","a","l","s","o">>
\* '   a program for summing numbers on a keyboard also   ': 48 characters trimmed, 1 keyword(s)
TxtPaddedOneKeyword == <<" "," "," ","a"," ","p","r","o","g","r","a","m"," ","f","o","r"," ","s","u","m","m","i","n","g"," ","n","u","m","b","e","r","s"," ","o","n"," ","a"," ","k","e","y","b","o","a","r","d"," ","a","l","s","o"," "," "," ">>
\* 'Build a calculator'
TxtBuildCalculator == <<"B","u","i","l","d"," ","a"," ","c","a","l","c","u","l","a","t","o","r">>
\* 'keep the same code'
TxtKeepSameCode == <<"k","e","e","p"," ","t","h","e"," ","s","a","m","e"," ","c","o","d","e">>

\* New prompts for the heuristic: short and long, with no, one and two
\* keywords, with a back-reference, and around the length of 50.
HeuristicPrompts ==
    { TxtInputSqrt, TxtShortOneKeyword, TxtInputPy, TxtLongPlain,
      TxtLongOneKeyword, TxtLongTwoKeywords, TxtLongReference,
      TxtFiftyOneKeyword, TxtPaddedOneKeyword }

\* Previous prompts: without and with keywords and back-references.
PreviousPrompts == { TxtBuildCalculator, TxtInputPy, TxtKeepSameCode }

\* _heuristic_followup_detection called on its own.
CallHeuristic ==
    /\ pc = "idle"
    /\ \E new_prompt \in HeuristicPrompts, previous_prompt \in PreviousPrompts :
        probe' = [fn |-> "heuristic", new_prompt |-> new_prompt,
                  previous_prompt |-> previous_prompt,
                  result |-> heuristic_followup_detection(new_prompt,
                                                          previous_prompt)]
    /\ UNCHANGED <<pc, user_input, stop_requested, results, runVars, invVars,
                   reviews_done, progVars, sessVars, calls>>

\* What the classifier model can answer, with a string of white space, an
\* empty dict and a dict whose content is None.
ClassifierResponses ==
    FollowUpResponses
        \cup { StrResp(TxtBlank), DictResp(Absent, Absent),
               DictResp(None, Absent) }

\* detect_follow_up called on its own, the answer of the model recorded.
CallClassifier ==
    /\ pc = "idle"
    /\ \E input \in SessionInputs, ctx \in CallerContexts,
          response \in ClassifierResponses :
        probe' = [fn |-> "classifier", input |-> input, context |-> ctx,
                  response |-> response,
                  result |-> detect_follow_up(input, ctx, response)]
    /\ UNCHANGED <<pc, user_input, stop_requested, results, runVars, invVars,
                   reviews_done, progVars, sessVars, calls>>

\* 'read input, handle error, any os, in time'
TxtShortSpecified == <<"r","e","a","d"," ","i","n","p","u","t",","," ","h","a","n","d","l","e"," ","e","r","r","o","r",","," ","a","n","y"," ","o","s",","," ","i","n"," ","t","i","m","e">>
\* 'a fast and simple tool that should handle input and output errors'
TxtLongVague == <<"a"," ","f","a","s","t"," ","a","n","d"," ","s","i","m","p","l","e"," ","t","o","o","l"," ","t","h","a","t"," ","s","h","o","u","l","d"," ","h","a","n","d","l","e"," ","i","n","p","u","t"," ","a","n","d"," ","o","u","t","p","u","t"," ","e","r","r","o","r","s">>
\* 'a fast, quick tool to quickly handle the input on any platform'
TxtLongOnePattern == <<"a"," ","f","a","s","t",","," ","q","u","i","c","k"," ","t","o","o","l"," ","t","o"," ","q","u","i","c","k","l","y"," ","h","a","n","d","l","e"," ","t","h","e"," ","i","n","p","u","t"," ","o","n"," ","a","n","y"," ","p","l","a","t","f","o","r","m">>
\* 'a program that reads the input and prints the sum of two numbers'
TxtLongThreeMissing == <<"a"," ","p","r","o","g","r","a","m"," ","t","h","a","t"," ","r","e","a","d","s"," ","t","h","e"," ","i","n","p","u","t"," ","a","n","d"," ","p","r","i","n","t","s"," ","t","h","e"," ","s","u","m"," ","o","f"," ","t","w","o"," ","n","u","m","b","e","r","s">>
\* 'a good tool that may read input and handle what the keyboard sends'
TxtLongTwoAndTwo == <<"a"," ","g","o","o","d"," ","t","o","o","l"," ","t","h","a","t"," ","m","a","y"," ","r","e","a","d"," ","i","n","p","u","t"," ","a","n","d"," ","h","a","n","d","l","e"," ","w","h","a","t"," ","t","h","e"," ","k","e","y","b","o","a","r","d"," ","s","e","n","d","s">>
\* 'breakfast and goodness for the easygoing: handle input'
TxtLongInsideWords == <<"b","r","e","a","k","f","a","s","t"," ","a","n","d"," ","g","o","o","d","n","e","s","s"," ","f","o","r"," ","t","h","e"," ","e","a","s","y","g","o","i","n","g",":"," ","h","a","n","d","l","e"," ","i","n","p","u","t">>
\* 'FAST GOOD EASY tool: HANDLE the INPUT on every kind of keyboard'
TxtLongUpper == <<"F","A","S","T"," ","G","O","O","D"," ","E","A","S","Y"," ","t","o","o","l",":"," ","H","A","N","D","L","E"," ","t","h","e"," ","I","N","P","U","T"," ","o","n"," ","e","v","e","r","y"," ","k","i","n","d"," ","o","f"," ","k","e","y","b","o","a","r","d">>
\* '        read the input and handle every error         '
TxtPaddedSpecified == <<" "," "," "," "," "," "," "," ","r","e","a","d"," ","t","h","e"," ","i","n","p","u","t"," ","a","n","d"," ","h","a","n","d","l","e"," ","e","v","e","r","y"," ","e","r","r","o","r"," "," "," "," "," "," "," "," "," ">>
\* 'read the input and handle the error, as in python3'
TxtFiftySpecified == <<"r","e","a","d"," ","t","h","e"," ","i","n","p","u","t"," ","a","n","d"," ","h","a","n","d","l","e"," ","t","h","e"," ","e","r","r","o","r",","," ","a","s"," ","i","n"," ","p","y","t","h","o","n","3">>

\* Inputs of the pre-check: short and long, with two and three patterns of
\* each list, with words inside other words, in upper case, and around the
\* length of 50.
AmbiguityInputs ==
    { TxtInputPy, TxtShortSpecified, TxtLongSpecified, TxtLongVague,
      TxtLongOnePattern, TxtLongThreeMissing, TxtLongTwoAndTwo,
      TxtLongInsideWords, TxtLongUpper, TxtPaddedSpecified, TxtFiftySpecified }

\* _detect_ambiguity called on its own.
CallDetectAmbiguity ==
    /\ pc = "idle"
    /\ \E input \in AmbiguityInputs :
        probe' = [fn |-> "detect_ambiguity", input |-> input,
                  result |-> detect_ambiguity(input)]
    /\ UNCHANGED <<pc, user_input, stop_requested, results, runVars, invVars,
                   reviews_done, progVars, sessVars, calls>>

\* An entry of clarifying_questions that is neither a string nor a mapping.
QNumber == [kind |-> "number", question |-> Absent, assumption |-> Absent,
            code |-> Absent]

\* Entries of clarifying_questions: a plain string, mappings with all, one
\* and none of the three keys, and a number.
RawQuestions ==
    { QStr(TxtWhichInts), QDict(TxtWhichInts, TxtInt32, TxtRawCode),
      QDict(TxtReqAdd, Absent, Absent), QDict(Absent, Absent, Absent),
      QNumber }

\* The lists of at most MaxQuestions entries.
MaxQuestions == 2
RawQuestionLists ==
    UNION { [1..n -> RawQuestions] : n \in 0..MaxQuestions }

\* A triple of the record, as the mapping it is.
AsMapping(t) == QDict(t.question, t.assumption, t.code)

\* The normalization of analyze applied to a list of entries, and again to
\* the triples it gave.
CallNormalize ==
    /\ pc = "idle"
    /\ probe = NoProbe
    /\ \E raw \in RawQuestionLists :
        LET once == NormalizeQuestions(raw)
        IN probe' = [fn |-> "normalize", raw |-> raw, result |-> once,
                     again |-> NormalizeQuestions(
                                [i \in 1..Len(once) |-> AsMapping(once[i])])]
    /\ UNCHANGED <<pc, user_input, stop_requested, results, runVars, invVars,
                   reviews_done, progVars, sessVars, calls>>

\* 'a react page in typescript and javascript'
TxtInputAllThree == <<"a"," ","r","e","a","c","t"," ","p","a","g","e"," ","i","n"," ","t","y","p","e","s","c","r","i","p","t"," ","a","n","d"," ","j","a","v","a","s","c","r","i","p","t">>
\* 'ts or js, no java'
TxtInputTsJs == <<"t","s"," ","o","r"," ","j","s",","," ","n","o"," ","j","a","v","a">>
\* 'java or javascript'
TxtInputJavaFirst == <<"j","a","v","a"," ","o","r"," ","j","a","v","a","s","c","r","i","p","t">>
\* 'go or python'
TxtInputGoPython == <<"g","o"," ","o","r"," ","p","y","t","h","o","n">>
\* 'sum two numbers'
TxtInputNoLanguage == <<"s","u","m"," ","t","w","o"," ","n","u","m","b","e","r","s">>
\* 'a REACT app'
TxtInputUpperReact == <<"a"," ","R","E","A","C","T"," ","a","p","p">>
\* 'a c++ tool'
TxtInputCpp == <<"a"," ","c","+","+"," ","t","o","o","l">>
\* 'view.tsx files'
TxtInputTsx == <<"v","i","e","w",".","t","s","x"," ","f","i","l","e","s">>

\* Inputs that name no language, one language, and several languages of
\* different priority; markers inside words, in upper case, next to
\* punctuation.
LanguageInputs ==
    { TxtInputPy, TxtInputReact, TxtInputAllThree, TxtInputTsJs,
      TxtInputJavaFirst, TxtInputGoPython, TxtInputNoLanguage,
      TxtInputUpperReact, TxtInputCpp, TxtInputTsx }

\* Payloads without a language, with an empty one, with 'JavaScript',
\* 'TypeScript' and 'Cobol', and an answer without payload.
LanguagePayloads ==
    { TxtPayloadInProse, TxtPayloadFull, <<"{", "FR", "LANGTS", "}">>,
      <<"{", "FR", "LANGX", "}">>, <<"{", "FR", "LANGEMPTY", "}">>, TxtNoJson }

\* analyze on an answer accepted at the first attempt, and
\* _detect_programming_language on the same input.
CallAnalyzeRecord ==
    /\ pc = "idle"
    /\ probe = NoProbe
    /\ \E content \in LanguagePayloads, input \in LanguageInputs :
        probe' = [fn |-> "record", content |-> content, input |-> input,
                  detected |-> detect_programming_language(input),
                  result |-> AnalysisRecord(content, input,
                                            detect_ambiguity(input))]
    /\ UNCHANGED <<pc, user_input, stop_requested, results, runVars, invVars,
                   reviews_done, progVars, sessVars, calls>>

\* 'let a'
TxtLetA == <<"l","e","t"," ","a">>

\* Fenced blocks of an answer: tagged python or javascript.
AnswerBlocks ==
    { [tag |-> tag, inner |-> inner] :
        tag \in {TxtPython, TxtJavascript}, inner \in {TxtRawCode, TxtLetA} }

\* The answers of one block and of MaxBlocks blocks.
MaxBlocks == 2
AnswerBlockLists == UNION { [1..n -> AnswerBlocks] : n \in 1..MaxBlocks }

\* The text of an answer: its blocks, each on lines of its own.
RenderBlocks(blocks) ==
    Join([i \in 1..Len(blocks) |-> Fenced(blocks[i].tag, blocks[i].inner)],
         <<"\n">>)

\* generate_code for requirements of a language, on an answer of fenced
\* blocks accepted at the first attempt.
CallGenerateBlocks ==
    /\ pc = "idle"
    /\ probe = NoProbe
    /\ \E language \in {TxtPython, TxtJavascript},
          blocks \in AnswerBlockLists :
        probe' = [fn |-> "generate_blocks", language |-> language,
                  blocks |-> blocks,
                  result |-> ExtractGenerated(RenderBlocks(blocks))]
    /\ UNCHANGED <<pc, user_input, stop_requested, results, runVars, invVars,
                   reviews_done, progVars, sessVars, calls>>

\* n times the character c.
Repeat(c, n) == [i \in 1..n |-> c]

\* ' import ', ' assert ' and a word that is no token of code.
TxtImportWord == <<" ","i","m","p","o","r","t"," ">>
TxtAssertWord == <<" ","a","s","s","e","r","t"," ">>
TxtNoToken == <<" ","z","z","z","z","z","z"," ">>

\* An answer of one python block of k characters, a word, a tail of m
\* characters and a newline: 23 + k + m characters.
LongAnswer(k, word, m) ==
    Fenced(PyTag, Repeat("a", k)) \o word \o Repeat("z", m) \o <<"\n">>

\* The lengths of the block and the tail: answers of 200 and 201
\* characters, of 210 with a block of 30% and just under it, and of 276.
LongAnswerSizes ==
    { <<3, 174>>, <<3, 175>>, <<63, 124>>, <<62, 125>>, <<3, 250>> }

\* generate_code and generate_tests on a long answer accepted at the first
\* attempt.
CallSafetyNet ==
    /\ pc = "idle"
    /\ probe = NoProbe
    /\ \E agent \in {"coding", "test"}, size \in LongAnswerSizes,
          word \in {TxtImportWord, TxtAssertWord, TxtNoToken} :
        LET raw == LongAnswer(size[1], word, size[2])
        IN probe' = [fn |-> "safety_net", agent |-> agent, raw |-> raw,
                     inner |-> Repeat("a", size[1]),
                     result |-> IF agent = "coding" THEN ExtractGenerated(raw)
                                ELSE ExtractTests(raw)]
    /\ UNCHANGED <<pc, user_input, stop_requested, results, runVars, invVars,
                   reviews_done, progVars, sessVars, calls>>

NextCalls ==
    \/ CallClassifier
    \/ CallHeuristic
    \/ CallDetectAmbiguity
    \/ CallNormalize
    \/ CallAnalyzeRecord
    \/ CallGenerateBlocks
    \/ CallSafetyNet

SpecCalls == Init /\ [][NextCalls]_vars

(***************************************************************************)
(* Two invocations of generate_code at the same time                       *)
(***************************************************************************)
\* The callers of generate_code that run at the same time.
Callers == 1..2

\* What the model can answer to either caller.
ConcurrentResponses ==
    { NoneResp, ExcResp, StrResp(TxtBlank), StrResp(TxtRawCode),
      StrResp(TxtFencedJs) }

\* The locals of an invocation of generate_code before its loop: attempt,
\* last_error, and what it has returned or raised; log and slept record the
\* responses it received and its time.sleep arguments; sleeping: it is in
\* time.sleep.  code: the code field of the run state of the caller's run.
NewInvocation ==
    [attempt |-> 0, last_error |-> NoCause, ret |-> Pending,
     log |-> <<>>, slept |-> <<>>, sleeping |-> FALSE, code |-> Empty]

\* Variant: the loop variable is kept where every caller sees it, and reads
\* as far as the invocation furthest ahead has counted.
LoopVariableShared(cs, c) ==
    CHOOSE n \in { cs[d].attempt : d \in DOMAIN cs } :
        \A d \in DOMAIN cs : cs[d].attempt <= n

\* The loop variable `attempt' that caller c reads: a local of its own
\* invocation.
LoopVariable(cs, c) == cs[c].attempt

\* A failed attempt of an invocation whose loop variable reads n: sleep and
\* continue, or raise on the last attempt.
RetryOrRaiseLocal(inv, n, cause, viaExcept) ==
    IF n < max_retries - 1
    THEN [inv EXCEPT !.sleeping = TRUE,
                     !.slept = Append(@, 2 ^ n),
                     !.last_error = IF viaExcept THEN cause ELSE @]
    ELSE [inv EXCEPT !.ret = Raised([stage |-> "generate",
                                     attempts |-> max_retries,
                                     cause |-> cause]),
                     !.last_error = cause]

\* One iteration of the retry loop of generate_code, and on break the rest
\* of the method, on the locals of one invocation.
GenerateIteration(inv, n, response) ==
    LET logged == [inv EXCEPT !.log = Append(@, response)]
    IN IF response.kind = "exc"
       THEN RetryOrRaiseLocal(logged, n, "exception", TRUE)
       ELSE IF response.kind = "none"
       THEN RetryOrRaiseLocal(logged, n, "none_response", FALSE)
       ELSE LET generated == ContentOrText(response)
            IN IF IsBlank(generated)
               THEN RetryOrRaiseLocal(logged, n, "empty_response", FALSE)
               ELSE [logged EXCEPT !.ret = Returned(ExtractGenerated(generated))]

\* The run of the caller stores the code the invocation returned in its own
\* run state.
RunStores(inv) ==
    [inv EXCEPT !.code = IF inv.ret.kind = "ok" THEN inv.ret.value ELSE @]

\* time.sleep returned: `continue' takes the next value of range(max_retries).
Continue(inv) == [inv EXCEPT !.sleeping = FALSE, !.attempt = @ + 1]

\* generate_code run alone on the given responses, one after the other.
RECURSIVE RunAlone(_, _)
RunAlone(inv, responses) ==
    IF responses = <<>> \/ inv.ret # Pending THEN inv
    ELSE LET woken == IF inv.sleeping THEN Continue(inv) ELSE inv
         IN RunAlone(RunStores(GenerateIteration(woken, woken.attempt,
                                                 Head(responses))),
                     Tail(responses))

\* Caller c calls generate_code (again, once its last call is over).
ConcurrentCall(c) ==
    /\ pc = "idle"
    /\ IF c \in DOMAIN calls THEN calls[c].ret # Pending ELSE TRUE
    /\ calls' = [d \in DOMAIN calls \cup {c} |->
                    IF d = c THEN NewInvocation ELSE calls[d]]
    /\ UNCHANGED <<pc, user_input, stop_requested, results, runVars, invVars,
                   reviews_done, progVars, sessVars, probe>>

\* The model answers caller c, whose invocation goes through one iteration.
ConcurrentAttempt(c) ==
    /\ pc = "idle"
    /\ c \in DOMAIN calls
    /\ calls[c].ret = Pending
    /\ ~calls[c].sleeping
    /\ \E response \in ConcurrentResponses :
        calls' = [calls EXCEPT
                    ![c] = RunStores(GenerateIteration(@, LoopVariable(calls, c),
                                                       response))]
    /\ UNCHANGED <<pc, user_input, stop_requested, results, runVars, invVars,
                   reviews_done, progVars, sessVars, probe>>

\* The sleep of caller c ends.
ConcurrentWake(c) ==
    /\ pc = "idle"
    /\ c \in DOMAIN calls
    /\ calls[c].sleeping
    /\ calls' = [calls EXCEPT ![c] = Continue(@)]
    /\ UNCHANGED <<pc, user_input, stop_requested, results, runVars, invVars,
                   reviews_done, progVars, sessVars, probe>>

CallerCalls == \E c \in Callers : ConcurrentCall(c)
CallerAttempts == \E c \in Callers : ConcurrentAttempt(c)
CallerWakes == \E c \in Callers : ConcurrentWake(c)

NextConcurrent ==
    \/ CallerCalls
    \/ CallerAttempts
    \/ CallerWakes

SpecConcurrent == Init /\ [][NextConcurrent]_vars

(***************************************************************************)
(* Properties                                                              *)
(***************************************************************************)
\* The last model response of the invocation in progress.
LastResponse == inv_log[Len(inv_log)]

\* A response that carries text which is not empty after trimming.
HasText(r) == r.kind \in {"str", "dict"} /\ Strip(ContentOf(r)) # Empty

\* A str response that is empty after trimming.
BlankText(r) == r.kind = "str" /\ Strip(r.body) = Empty

\* An attempt that failed: None, an exception, or a str empty after trimming.
FailedAttempt(r) == r.kind \in {"none", "exc"} \/ BlankText(r)

\* C1: an invocation of a stage operation makes at most 3 model calls, and
\* none after the first call that returned a non-empty response: every
\* response before the last one of the invocation is None, an exception or
\* empty text.
C1_AtMostThreeCalls ==
    /\ Len(inv_log) <= 3
    /\ \A i \in 1..(Len(inv_log) - 1) : ~HasText(inv_log[i])

\* C1 witness: documentation generation succeeded on its third call.
C1_Witness ==
    /\ stage = "docs"
    /\ Len(inv_log) = 3
    /\ ret.kind = "ok"
    /\ HasText(LastResponse)

C3_LoopTransitions ==
    /\ [][(pc = "generate" /\ pc' # pc /\ ret.kind = "ok") =>
            /\ pc' = "review"
            /\ stage' = "review"
            /\ loop_state' = "Reviewing"
            /\ code' = ret.value
            /\ args'.code = ret.value]_vars
    /\ [][code' # code => (pc = "generate" /\ pc' = "review")]_vars
    /\ [][loop_state = "Approved" =>
            /\ loop_state' = "Approved"
            /\ stage' \notin {"generate", "review"}
            /\ pc' \notin {"generate", "review"}]_vars
    /\ [][(pc' = "generate" /\ pc # "generate") =>
            \/ /\ pc = "analyze"
               /\ iterations' = 1
               /\ args'.feedback = None
            \/ /\ pc = "review"
               /\ ret.kind = "ok"
               /\ ~ret.value.is_approved
               /\ iterations < MAX_ITERATIONS
               /\ iterations' = iterations + 1]_vars

\* C3 witness: the second round was approved and the run went on to finish.
C3_Witness ==
    /\ loop_state = "Approved"
    /\ iterations = 2
    /\ pc = "finished"
    /\ status = "completed"

\* A step of execute_pipeline at a stage boundary (the review loop is one
\* stage) taken after the stage returned normally.
BoundaryStep ==
    /\ pc' # pc
    /\ \/ pc = "start"
       \/ pc \in {"analyze", "tests", "docs"} /\ ret.kind = "ok"
       \/ pc = "review" /\ ret.kind = "ok" /\ pc' # "generate"

\* C4: a stop seen at a stage boundary ends the run with status "stopped"
\* and no later stage is attempted; the record holds the outputs of the
\* completed stages only (after analysis alone: requirements, but no code, no
\* feedback, no tests, no documentation).
C4_StopAtBoundary ==
    /\ [][(stop_requested /\ BoundaryStep) =>
            /\ pc' = "returned"
            /\ status' = "stopped"
            /\ stage' = "none"]_vars
    /\ [](status = "stopped" =>
            /\ stage = "none"
            /\ pc \in {"returned", "finished"}
            /\ loop_state \in {"none", "Approved", "IterationCapReached"}
            /\ (requirements = NoRequirements => loop_state = "none")
            /\ (loop_state = "none" =>
                    code = Empty /\ review_feedback = <<>> /\ iterations = 0)
            /\ (loop_state # "none" => code # Empty /\ review_feedback # <<>>)
            /\ (code = Empty => test_cases = Empty)
            /\ (test_cases = Empty => documentation = Empty)
            /\ (pc = "finished" => results = RunResult))

\* C4 witness: stopped right after the analysis.
C4_Witness ==
    /\ pc = "finished"
    /\ results.status = "stopped"
    /\ results.requirements # NoRequirements
    /\ results.code = Empty
    /\ results.test_cases = Empty
    /\ results.documentation = Empty

\* C5: when a stage operation raises, execute_pipeline returns, with status
\* "failed" and the error of the stage, attempts no later stage and keeps
\* every output recorded before.
C5_FailureIsReported ==
    /\ [][(stage # "none" /\ ret.kind = "raise" /\ pc' # pc) =>
            /\ pc' = "returned"
            /\ stage' = "none"
            /\ status' = "failed"
            /\ error' = ret.error
            /\ requirements' = requirements
            /\ code' = code
            /\ review_feedback' = review_feedback
            /\ test_cases' = test_cases
            /\ documentation' = documentation]_vars
    /\ [](status = "failed" =>
            /\ stage = "none"
            /\ pc \in {"returned", "finished"}
            /\ error # NoError
            /\ error.cause \in {"exception", "none_response", "empty_response",
                               "TypeError"}
            /\ (error.cause # "TypeError" => error.attempts = 3)
            /\ (pc = "finished" => results = RunResult))

\* C5 witness: test generation failed after the loop approved the code.
C5_Witness ==
    /\ pc = "finished"
    /\ results.status = "failed"
    /\ results.error.stage = "tests"
    /\ results.code # Empty
    /\ results.requirements # NoRequirements
    /\ results.review_feedback # <<>>

\* C6 (as claimed): in every stage a response that is empty after trimming is
\* retried or makes the invocation fail; the invocation never returns
\* normally on it.
C6_EmptyNeverSucceeds ==
    \A i \in 1..Len(inv_log) :
        BlankText(inv_log[i]) => (i < Len(inv_log) \/ ret.kind # "ok")

\* C7 (as claimed): when three attempts were made and all failed, the
\* invocation raised, with the attempt count and the cause of the last
\* attempt; and the retry loop raises only after the third attempt.
C7_FailsAfterThreeFailures ==
    /\ (Len(inv_log) = 3 /\ \A i \in 1..3 : FailedAttempt(inv_log[i])) =>
            /\ ret.kind = "raise"
            /\ ret.error.attempts = 3
            /\ ret.error.cause =
                  (IF LastResponse.kind = "exc" THEN "exception"
                   ELSE IF LastResponse.kind = "none" THEN "none_response"
                   ELSE "empty_response")
    /\ (ret.kind = "raise" /\ ret.error.cause # "TypeError") => Len(inv_log) = 3

\* The text, after leading whitespace, starts with APPROVED in any case.
ApprovedAtStart(raw) ==
    \E k \in 1..Len(raw) :
        /\ \A j \in 1..(k - 1) : IsWs(raw[j])
        /\ k + 7 <= Len(raw)
        /\ \A m \in 1..8 : UpperChar(raw[k + m - 1]) = TokApproved[m]

\* C8: review returns approved = true exactly when the response text, after
\* leading whitespace and compared in upper case, starts with APPROVED.
C8_ApprovedIffPrefix ==
    (stage = "review" /\ ret.kind = "ok") =>
        (ret.value.is_approved <=> ApprovedAtStart(ContentOf(LastResponse)))

\* C8 witness: approvals and refusals both occur: here a response that needs
\* trimming and upper-casing was approved.
C8_Witness ==
    /\ stage = "review"
    /\ ret.kind = "ok"
    /\ ret.value.is_approved
    /\ ContentOf(LastResponse) = TxtApprovedNotes

\* fb is raw without its leading and trailing whitespace.
TrimOf(raw, fb) ==
    /\ fb # Empty => ~IsWs(fb[1]) /\ ~IsWs(fb[Len(fb)])
    /\ \E a \in 0..Len(raw) :
        /\ a + Len(fb) <= Len(raw)
        /\ SubSeq(raw, a + 1, a + Len(fb)) = fb
        /\ \A j \in 1..a : IsWs(raw[j])
        /\ \A j \in (a + Len(fb) + 1)..Len(raw) : IsWs(raw[j])

\* C9 (as claimed): the feedback returned by review is the response text
\* verbatim.
C9_FeedbackVerbatim ==
    (stage = "review" /\ ret.kind = "ok") =>
        ret.value.feedback = ContentOf(LastResponse)

\* C9 (amended): the feedback returned by review is the response text
\* without its leading and trailing whitespace, otherwise unchanged; the
\* feedback of a non-approving review is what the next generation receives
\* and what the history records.
C9_FeedbackTrimmed ==
    /\ []((stage = "review" /\ ret.kind = "ok") =>
            TrimOf(ContentOf(LastResponse), ret.value.feedback))
    /\ [][(pc = "review" /\ pc' = "generate") =>
            /\ args'.feedback = ret.value.feedback
            /\ review_feedback'[Len(review_feedback')] = ret.value.feedback]_vars

\* C9 witness: a revision request with surrounding whitespace reached the
\* next generation round trimmed.
C9_Witness ==
    /\ pc = "generate"
    /\ iterations = 2
    /\ args.feedback = Strip(TxtFixWs)
    /\ args.feedback # TxtFixWs

\* C10: the feedback history only grows at its end, by the feedback of the
\* review that just returned, and has one entry per returned review once
\* the orchestrator has taken the review's result.
C10_HistoryAppendOnly ==
    /\ [][review_feedback' # review_feedback =>
            /\ pc = "review"
            /\ Len(review_feedback') = Len(review_feedback) + 1
            /\ SubSeq(review_feedback', 1, Len(review_feedback)) = review_feedback
            /\ review_feedback'[Len(review_feedback')] = ret.value.feedback]_vars
    /\ [](Len(review_feedback) =
            IF pc = "review" /\ ret.kind = "ok" THEN reviews_done - 1
            ELSE reviews_done)

\* C10 witness: two reviews, two entries, in order.
C10_Witness ==
    /\ reviews_done = 2
    /\ Len(review_feedback) = 2
    /\ review_feedback[1] = TxtNotApproved
    /\ review_feedback[2] = TxtApproved
    /\ pc = "finished"

\* C11: the stage operations of a run are called in the order analyze,
\* review loop (generate, review, generate, ...), tests, documentation; a
\* stage is called only after the call before it has returned normally, and
\* no other stage is called while one is in progress; tests and
\* documentation are called only once the loop is Approved or
\* IterationCapReached, with the code that the last review of the loop
\* examined, which no longer changes.
C11_StageOrder ==
    /\ [][(stage' # stage /\ stage' # "none") =>
            /\ <<stage, stage'>> \in
                  { <<"none", "analyze">>, <<"analyze", "generate">>,
                    <<"generate", "review">>, <<"review", "generate">>,
                    <<"review", "tests">>, <<"tests", "docs">> }
            /\ (stage = "none" => pc = "start")
            /\ (stage # "none" => ret.kind = "ok")]_vars
    /\ [][(stage # "none" /\ ret = Pending) => stage' = stage]_vars
    /\ [](stage \in {"tests", "docs"} =>
            /\ loop_state \in {"Approved", "IterationCapReached"}
            /\ args.code = code
            /\ code # Empty)
    /\ [][(stage = "review" /\ stage' = "tests") =>
            /\ args.code = code
            /\ code' = code]_vars
    /\ [][(loop_state = "Approved" \/ loop_state = "IterationCapReached") =>
            code' = code]_vars

\* C11 witness: the documentation was generated from the approved code
\* after the tests.
C11_Witness ==
    /\ pc = "docs"
    /\ stage = "docs"
    /\ ret.kind = "ok"
    /\ loop_state = "Approved"
    /\ test_cases # Empty
    /\ args.code = code

C15_FallbackEchoesUserInput ==
    (stage = "analyze" /\ ret.kind = "ok"
        /\ ParsePayload(ContentOf(LastResponse)).fallback) =>
        /\ ret.value.ambiguity_detected = TRUE
        /\ ret.value.functional_requirements = <<args.user_input>>

\* C16 (as claimed): on a model response with text, analyze returns a
\* requirement record and raises nothing.
C16_PayloadNeverRaises ==
    (stage = "analyze" /\ inv_log # <<>> /\ HasText(LastResponse)) =>
        ret.kind = "ok"

\* An attempt of generate_code that produced text: a response whose content
\* (or text, or rendering) is not empty after trimming.
ProducedText(r) == r.kind \in {"str", "dict"} /\ Strip(ContentOrText(r)) # Empty

\* C19: generate_code never returns empty or blank text; it raises only
\* after three attempts none of which produced text; and for a response
\* without a fence it returns the trimmed response.
C19_CodeNeverEmpty ==
    /\ (stage = "generate" /\ ret.kind = "ok") =>
            /\ ret.value # Empty
            /\ Strip(ret.value) # Empty
            /\ ProducedText(LastResponse)
            /\ (~Contains(ContentOrText(LastResponse), Fence) =>
                    ret.value = Strip(ContentOrText(LastResponse)))
    /\ (stage = "generate" /\ ret.kind = "raise") =>
            /\ Len(inv_log) = 3
            /\ \A i \in 1..3 : ~ProducedText(inv_log[i])

\* C19 witness: the third attempt gave code without a fence, after two
\* attempts without text.
C19_Witness ==
    /\ stage = "generate"
    /\ ret.kind = "ok"
    /\ Len(inv_log) = 3
    /\ LastResponse = StrResp(TxtRawCode)
    /\ ret.value = TxtRawCode

\* C17 (as claimed): every record analyze returns has its five sequence
\* fields, and each holds a sequence, never None.
C17_SequenceFieldsPresent ==
    (stage = "analyze" /\ ret.kind = "ok") =>
        /\ { "functional_requirements", "non_functional_requirements",
             "assumptions", "constraints", "clarifying_questions" }
              \subseteq DOMAIN ret.value
        /\ ret.value.functional_requirements # NoneList
        /\ ret.value.non_functional_requirements # NoneList
        /\ ret.value.assumptions # NoneList
        /\ ret.value.constraints # NoneList
        /\ \A i \in DOMAIN ret.value.clarifying_questions :
              DOMAIN ret.value.clarifying_questions[i] =
                  {"question", "assumption", "code"}

\* C18 (as claimed): for a response that is one fenced block with the tag of
\* a supported language around a text that is not blank, generate_code
\* returns the inner text, trimmed.
C18_RoundTrip ==
    \A tag \in LanguageTags, inner \in InnerTexts :
        (stage = "generate" /\ ret.kind = "ok" /\ Strip(inner) # Empty
            /\ LastResponse = StrResp(Fenced(tag, inner))) =>
            ret.value = Strip(inner)

\* C18 (amended): for such a response whose inner text is not blank,
\* generate_code returns the inner text, trimmed, unless the trimmed inner
\* text is shorter than 30% of the response, the response is longer than 200
\* characters and holds one of the code keywords: then it returns the whole
\* response, trimmed.
C18_RoundTripUnlessSafetyNet ==
    \A tag \in LanguageTags, inner \in InnerTexts :
        (stage = "generate" /\ ret.kind = "ok" /\ Strip(inner) # Empty
            /\ LastResponse = StrResp(Fenced(tag, inner))) =>
            LET text == Fenced(tag, inner)
            IN IF /\ 10 * Len(Strip(inner)) < 3 * Len(text)
                  /\ Len(text) > 200
                  /\ \E keyword \in CodeKeywords : Contains(text, keyword)
               THEN ret.value = Strip(text)
               ELSE ret.value = Strip(inner)

\* C18 witness: a block tagged go, whose inner text needs trimming, gave the
\* trimmed inner text.
C18_Witness ==
    /\ stage = "generate"
    /\ ret.kind = "ok"
    /\ LastResponse = StrResp(Fenced(<<"g","o">>, TxtInnerWs))
    /\ ret.value = Strip(TxtInnerWs)
    /\ ret.value # TxtInnerWs

\* C13: the Generate handler gives execute_pipeline the stored conversation
\* context exactly when that context is active and the input was classified
\* as a follow-up, and the context it gives is the stored one, untouched.  For
\* an input classified as new in an active conversation it gives no context
\* and leaves the stored context empty and inactive, and the stored results
\* absent, before the run starts; the analysis is then called with no
\* context and builds the request it builds without one.
C13_ContextIffFollowUp ==
    /\ [][(pc = "idle" /\ pc' = "start") =>
            /\ (context' # NoneContext)
                    <=> (conversation_context.is_active /\ is_followup')
            /\ context' # NoneContext =>
                    /\ context' = conversation_context
                    /\ conversation_context' = conversation_context
            /\ (conversation_context.is_active /\ ~is_followup') =>
                    /\ context' = NoneContext
                    /\ conversation_context' = NoContext
                    /\ results' = NoResults]_vars
    /\ [](pc = "returned" =>
            /\ args.context = context
            /\ ~is_followup =>
                    /\ args.context = NoneContext
                    /\ ContextSection(args.context) = Empty)

\* In an active conversation the model classified the input as new: the run
\* is about to start with no context, on an emptied conversation and with
\* the earlier results gone.
C13_Witness ==
    /\ pc = "start"
    /\ detect_calls = 1
    /\ ~is_followup
    /\ context = NoneContext
    /\ conversation_context = NoContext
    /\ results = NoResults
    /\ args.user_input # None

\* C14: with a context that is not active, detect_follow_up answers false
\* and asks no model, analyze builds the request it builds when no context
\* is given, and the Generate handler classifies nothing and gives no
\* context to the run.
C14_InactiveContextHasNoInfluence ==
    /\ []((probe.fn = "detect_follow_up" /\ ~probe.context.is_active) =>
            probe.result = [is_followup |-> FALSE, calls |-> 0])
    /\ []((probe.fn = "analyze" /\ probe.context # NoneContext
                /\ ~probe.context.is_active) =>
            probe.request = AnalyzePrompt(probe.input, NoneContext))
    /\ [][(pc = "idle" /\ pc' = "start" /\ ~conversation_context.is_active) =>
            /\ detect_calls' = 0
            /\ ~is_followup'
            /\ context' = NoneContext]_vars

\* analyze was called with an earlier conversation, prompt, requirements and
\* code included, that is flagged inactive.
C14_Witness ==
    /\ probe.fn = "analyze"
    /\ probe.context = EarlierConversation(FALSE)
    /\ Truthy(probe.context.previous_results.code)

\* C20: under every interleaving of the model calls, retries and sleeps of
\* two invocations of generate_code, each invocation has slept, and has
\* returned or raised, what it does when it runs alone on the responses it
\* received, and the run of its caller holds the code it holds then.
C20_NoInterference ==
    \A c \in DOMAIN calls :
        LET alone == RunAlone(NewInvocation, calls[c].log)
        IN /\ calls[c].ret = alone.ret
           /\ calls[c].slept = alone.slept
           /\ calls[c].last_error = alone.last_error
           /\ calls[c].code = alone.code

\* Both invocations are in progress: the first caller has failed twice and
\* raised on its third attempt while the second caller, after one failed
\* attempt, is in its first sleep.
C20_Witness ==
    /\ DOMAIN calls = Callers
    /\ calls[1].ret.kind = "raise"
    /\ calls[1].slept = <<1, 2>>
    /\ calls[2].ret = Pending
    /\ calls[2].sleeping
    /\ calls[2].slept = <<1>>

\* C21 (as claimed): in every stage, when attempt k of an invocation gets a
\* null response, an empty response or an exception and attempts remain, the
\* invocation sleeps 2^k and goes on to attempt k + 1; and the loop variable
\* never advances without that sleep.
C21_BackoffSchedule ==
    [][(stage # "none" /\ ret = Pending /\ inv_log' # inv_log) =>
        /\ (FailedAttempt(inv_log'[Len(inv_log')]) /\ attempt < max_retries - 1) =>
                /\ slept' = Append(slept, 2 ^ attempt)
                /\ attempt' = attempt + 1
                /\ ret' = Pending
        /\ attempt' # attempt =>
                /\ attempt' = attempt + 1
                /\ slept' = Append(slept, 2 ^ attempt)]_vars


\* C22 (as claimed): on every transition from Reviewing to Generating after
\* a round whose feedback is not empty, the generation that starts is called
\* with the feedback of that round and with the code generated before, and
\* its prompt carries both.
C22_FeedbackAndPreviousCode ==
    [][(loop_state = "Reviewing" /\ loop_state' = "Generating"
            /\ review_feedback'[Len(review_feedback')] # Empty) =>
        LET feedback == review_feedback'[Len(review_feedback')]
            prompt == GeneratePrompt(args')
        IN /\ args'.feedback = feedback
           /\ args'.previous_code = code
           /\ prompt.feedback_section = TxtReviewFeedbackHeading \o feedback
           /\ prompt.previous_code_section = TxtPreviousCodeHeading \o code]_vars


\* C23: the prompt of every generate_code call has one of three shapes,
\* decided by feedback and previous_code alone: with a feedback that is given
\* and not empty it opens as a conversion and carries the feedback and no
\* previous code; otherwise, with a previous_code that is given and not
\* empty, it opens as a modification and carries the previous code and no
\* feedback; otherwise it opens as a conversion and carries neither.
C23_OnePromptShape ==
    stage = "generate" =>
        LET prompt == GeneratePrompt(args)
            hasFeedback == args.feedback # None /\ args.feedback # Empty
            hasPrevious == args.previous_code # None /\ args.previous_code # Empty
        IN /\ hasFeedback =>
                /\ prompt.opening = TxtConvert
                /\ prompt.feedback_section = TxtReviewFeedbackHeading \o args.feedback
                /\ prompt.previous_code_section = Empty
           /\ (~hasFeedback /\ hasPrevious) =>
                /\ prompt.opening = TxtModify
                /\ prompt.feedback_section = Empty
                /\ prompt.previous_code_section
                        = TxtPreviousCodeHeading \o args.previous_code
           /\ (~hasFeedback /\ ~hasPrevious) =>
                /\ prompt.opening = TxtConvert
                /\ prompt.feedback_section = Empty
                /\ prompt.previous_code_section = Empty

\* generate_code was called with an empty feedback and a previous code, and
\* has returned: the prompt was the modification.
C23_Witness ==
    /\ stage = "generate"
    /\ ret.kind = "ok"
    /\ args.feedback = Empty
    /\ args.previous_code = TxtRawCode
    /\ GeneratePrompt(args).opening = TxtModify


\* C24: a stop requested while a stage is running leaves the stage alone.
\* While an invocation is pending the run state, the position of the
\* pipeline and its status do not move, stop requested or not; with a stop
\* requested the invocation still raises only after its last attempt and
\* still sleeps before every retry; and the status becomes "stopped" only at
\* a boundary, with the stop requested and the stage before it returned, in
\* the step that records what the stage returned.
C24_StopDoesNotInterrupt ==
    /\ [][(stage # "none" /\ ret = Pending) =>
            /\ pc' = pc
            /\ stage' = stage
            /\ status' = status
            /\ runVars' = runVars]_vars
    /\ [][(stop_requested /\ stage # "none" /\ ret = Pending
                /\ inv_log' # inv_log) =>
            /\ (ret'.kind = "raise" =>
                    \/ Len(inv_log') = max_retries
                    \/ ret'.error.cause = "TypeError")
            /\ (ret' = Pending =>
                    /\ attempt' = attempt + 1
                    /\ slept' = Append(slept, 2 ^ attempt))]_vars
    /\ [][(status' = "stopped" /\ status # "stopped") =>
            /\ stop_requested
            /\ pc = "start" \/ ret.kind = "ok"
            /\ (pc = "analyze" => requirements' = ret.value)
            /\ (pc = "review" =>
                    /\ review_feedback'
                            = Append(review_feedback, ret.value.feedback)
                    /\ code' = code)
            /\ (pc = "tests" => test_cases' = ret.value)
            /\ (pc = "docs" => documentation' = ret.value)]_vars

\* The run stopped after the test stage, which had failed once, slept and
\* then returned the tests that are now in the record; the stop can only
\* have been requested after that stage had started.
C24_Witness ==
    /\ pc = "returned"
    /\ status = "stopped"
    /\ test_cases # Empty
    /\ documentation = Empty
    /\ Len(inv_log) = 2
    /\ slept = <<1>>


\* The model call of the classifier failed: it raised, or it gave None, ''
\* or {}.
ClassifierCallFailed(r) ==
    \/ r.kind \in {"exc", "none"}
    \/ r.kind = "str" /\ r.body = Empty
    \/ r.kind = "dict" /\ r.body = Absent /\ r.alt = Absent

\* The conversation of a call of detect_follow_up is active and has a
\* previous prompt.
ActiveConversation(ctx) == ctx.is_active /\ ctx.previous_prompts # <<>>

\* C25 (as claimed): in an active conversation, when the model call of the
\* classifier fails, the heuristic decides only after max_retries calls of
\* the model.
C25_ClassifierRetries ==
    (probe.fn = "classifier" /\ ActiveConversation(probe.context)
        /\ ClassifierCallFailed(probe.response)) =>
            probe.result.calls = max_retries

\* C26 (as claimed): detect_follow_up returns a boolean; in an active
\* conversation, when the model call raised or gave a null or empty
\* response the result is the heuristic's for the new prompt, and for every
\* other response it is true exactly if the upper-cased response holds
\* FOLLOWUP or FOLLOW-UP.
C26_ClassifierResult ==
    (probe.fn = "classifier") =>
        /\ probe.result.is_followup \in BOOLEAN
        /\ ActiveConversation(probe.context) =>
            LET prompts == probe.context.previous_prompts
                text == Upper(ContentOf(probe.response))
            IN probe.result.is_followup =
                IF ClassifierCallFailed(probe.response)
                THEN heuristic_followup_detection(probe.input,
                                                  prompts[Len(prompts)])
                ELSE Contains(text, TokFollowup)
                        \/ Contains(text, TokFollowUpHyphen)

\* C26, amended: as C26, with a dict response whose content is None among
\* the cases the heuristic decides.
C26_ClassifierResultOrNoContent ==
    (probe.fn = "classifier") =>
        /\ probe.result.is_followup \in BOOLEAN
        /\ ActiveConversation(probe.context) =>
            LET prompts == probe.context.previous_prompts
                text == Upper(ContentOf(probe.response))
            IN probe.result.is_followup =
                IF ClassifierCallFailed(probe.response)
                        \/ (probe.response.kind = "dict"
                                /\ probe.response.body = None)
                THEN heuristic_followup_detection(probe.input,
                                                  prompts[Len(prompts)])
                ELSE Contains(text, TokFollowup)
                        \/ Contains(text, TokFollowUpHyphen)

\* In an active conversation the model answered the continuation 'also add
\* tests' with a dict whose content is None, and the heuristic said
\* follow-up.
C26_Witness ==
    /\ probe.fn = "classifier"
    /\ probe.context = EarlierConversation(TRUE)
    /\ probe.input = TxtInputFollow
    /\ probe.response = DictResp(None, Absent)
    /\ probe.result.is_followup


\* The text p occurs in the text s.
OccursIn(s, p) ==
    \E i \in 1..Len(s) :
        i + Len(p) - 1 <= Len(s) /\ SubSeq(s, i, i + Len(p) - 1) = p

\* The number of the follow-up keywords that occur in the text s.
KeywordsIn(s) ==
    Cardinality({ k \in DOMAIN followup_keywords :
                    OccursIn(s, followup_keywords[k]) })

\* The length of s between its first and its last character that is not
\* white space.
TrimmedLength(s) ==
    LET inked == { i \in 1..Len(s) : s[i] \notin {" ", "\n", "\t", "\r"} }
    IN IF inked = {} THEN 0
       ELSE (CHOOSE i \in inked : \A j \in inked : j <= i)
                - (CHOOSE i \in inked : \A j \in inked : i <= j) + 1

\* The back-references the claim lists.
BackReferences ==
    { <<"p","r","e","v","i","o","u","s">>, <<"a","b","o","v","e">>,
      <<"t","h","a","t"," ","c","o","d","e">>,
      <<"t","h","e"," ","c","o","d","e">>, <<"s","a","m","e">> }

\* C27: the heuristic says follow-up exactly if the new prompt, in lower
\* case, is shorter than 50 after trimming and holds a keyword, or holds two
\* keywords, or holds a back-reference; every previous prompt gives the
\* same verdict; 'also add a square root button' after 'Build a calculator'
\* is a follow-up.
C27_HeuristicRule ==
    (probe.fn = "heuristic") =>
        LET new_lower == ToLower(probe.new_prompt)
        IN /\ probe.result =
                (\/ TrimmedLength(probe.new_prompt) < 50
                        /\ KeywordsIn(new_lower) >= 1
                 \/ KeywordsIn(new_lower) >= 2
                 \/ \E ref \in BackReferences : OccursIn(new_lower, ref))
           /\ \A previous_prompt \in PreviousPrompts :
                heuristic_followup_detection(probe.new_prompt, previous_prompt)
                    = probe.result
           /\ (probe.new_prompt = TxtInputSqrt
                    /\ probe.previous_prompt = TxtBuildCalculator)
                => probe.result

\* The heuristic took a padded prompt with one keyword, 54 characters long
\* and 48 after trimming, after a previous prompt that holds a
\* back-reference, for a follow-up.
C27_Witness ==
    /\ probe.fn = "heuristic"
    /\ probe.new_prompt = TxtPaddedOneKeyword
    /\ probe.previous_prompt = TxtKeepSameCode
    /\ probe.result


\* C28: no step of execute_pipeline, whether it returns or raises, changes
\* the conversation context; the step of the caller after a return, with
\* any status, appends the input to previous_prompts, stores the returned
\* record as previous_results and as the results, and sets is_active; when
\* execute_pipeline raises, the context keeps its prompts.
C28_ContextChangedByCallerOnly ==
    [][/\ (pc = "start") => conversation_context' = conversation_context
       /\ (pc = "returned") =>
            /\ status \in {"completed", "stopped", "failed", "error"}
            /\ conversation_context'.previous_prompts
                    = Append(conversation_context.previous_prompts, user_input)
            /\ conversation_context'.previous_results = RunResult
            /\ conversation_context'.is_active
            /\ results' = RunResult
       /\ (pc = "start" /\ pc' = "idle") =>
            /\ conversation_context'.previous_prompts
                    = conversation_context.previous_prompts
            /\ conversation_context'.is_active = conversation_context.is_active
            /\ results' = results]_vars

\* A run that ended with the status failed joined the conversation, and
\* then execute_pipeline raised on a follow-up, whose input did not join.
C28_Witness ==
    /\ pc = "idle"
    /\ conversation_context.is_active
    /\ Len(conversation_context.previous_prompts) = 1
    /\ conversation_context.previous_prompts[1] # user_input
    /\ conversation_context.previous_results.status = "failed"
    /\ is_followup
    /\ context = conversation_context


\* One of the alternatives of a pattern stands in the text s as a word of
\* its own, in any case.
PatternHit(alternatives, s) ==
    \E w \in alternatives, i \in 1..Len(s) :
        LET j == i + Len(w) - 1
        IN /\ j <= Len(s)
           /\ SubSeq(ToLower(s), i, j) = w
           /\ (i > 1) => ~IsWordChar(s[i - 1])
           /\ (j < Len(s)) => ~IsWordChar(s[j + 1])

\* The number of the vague-term patterns that match s, and of the
\* missing-topic patterns that do not.
VagueHits(s) ==
    Cardinality({ k \in DOMAIN vague_terms : PatternHit(vague_terms[k], s) })
TopicMisses(s) ==
    Cardinality({ k \in DOMAIN missing_patterns :
                    ~PatternHit(missing_patterns[k], s) })

\* C29 (as claimed): the pre-check flags an input exactly if more than two
\* vague-term patterns match, or more than two missing-topic patterns do
\* not, or the input has fewer than 50 characters; every input of fewer
\* than 50 characters is flagged.
C29_AmbiguityRule ==
    (probe.fn = "detect_ambiguity") =>
        /\ probe.result.is_ambiguous =
                (\/ VagueHits(probe.input) > 2
                 \/ TopicMisses(probe.input) > 2
                 \/ Len(probe.input) < 50)
        /\ (Len(probe.input) < 50) => probe.result.is_ambiguous

\* C29, amended: as C29, with the length taken after leading and trailing
\* white space is removed.
C29_AmbiguityRuleTrimmed ==
    (probe.fn = "detect_ambiguity") =>
        /\ probe.result.is_ambiguous =
                (\/ VagueHits(probe.input) > 2
                 \/ TopicMisses(probe.input) > 2
                 \/ TrimmedLength(probe.input) < 50)
        /\ probe.result.vague_terms_found = VagueHits(probe.input)
        /\ probe.result.missing_specifications = TopicMisses(probe.input)
        /\ (Len(probe.input) < 50) => probe.result.is_ambiguous

\* The pre-check flagged an input of 54 characters, 37 of them between its
\* leading and trailing blanks, that matches no vague-term pattern and two
\* of the four missing-topic patterns.
C29_Witness ==
    /\ probe.fn = "detect_ambiguity"
    /\ probe.input = TxtPaddedSpecified
    /\ probe.result.is_ambiguous
    /\ probe.result.vague_terms_found = 0
    /\ probe.result.missing_specifications = 2
    /\ probe.result.input_length = 54


\* An answer of the model that analyze takes for a failed attempt.
AnalyzeAttemptFailed(r) ==
    r.kind \in {"exc", "none"} \/ IsBlank(ContentOf(r))

\* C30: when analyze has returned or raised, it raised exactly if the model
\* failed max_retries times or the record could not be built, and the
\* record it returned is the one built from the last answer and the input
\* alone; an input for which the pre-check gives the other result gets, on
\* the same answers, the same ambiguity_detected, ambiguity_notes and
\* failure.
C30_PreCheckGatesNothing ==
    (stage = "analyze" /\ ret # Pending) =>
        LET last == inv_log[Len(inv_log)]
            input == args.user_input
            others == { o \in UnitInputs :
                          detect_ambiguity(o).is_ambiguous
                            # detect_ambiguity(input).is_ambiguous }
        IN IF AnalyzeAttemptFailed(last)
           THEN /\ ret.kind = "raise"
                /\ Len(inv_log) = max_retries
                /\ \A n \in 1..Len(inv_log) : AnalyzeAttemptFailed(inv_log[n])
           ELSE /\ \A n \in 1..(Len(inv_log) - 1) :
                        AnalyzeAttemptFailed(inv_log[n])
                /\ LET built == BuildRequirements(ContentOf(last), input)
                   IN IF built = TypeError
                      THEN /\ ret.kind = "raise"
                           /\ \A o \in others :
                                BuildRequirements(ContentOf(last), o) = TypeError
                      ELSE /\ ret = Returned(built)
                           /\ \A o \in others :
                                LET other == BuildRequirements(ContentOf(last), o)
                                IN /\ other # TypeError
                                   /\ other.ambiguity_detected
                                        = ret.value.ambiguity_detected
                                   /\ other.ambiguity_notes
                                        = ret.value.ambiguity_notes

\* analyze returned a record that is not flagged ambiguous for an input the
\* pre-check flags.
C30_Witness ==
    /\ stage = "analyze"
    /\ ret.kind = "ok"
    /\ ~ret.value.ambiguity_detected
    /\ detect_ambiguity(args.user_input).is_ambiguous
    /\ Len(inv_log) = 2


\* The first balanced {...} span of the text s: from its first "{" to the
\* first position where as many braces have closed as have opened; Absent
\* if there is none.
FirstBalancedSpan(s) ==
    LET opens == { i \in 1..Len(s) : s[i] = "{" }
        start == CHOOSE i \in opens : \A j \in opens : i <= j
        depth(e) == Cardinality({ i \in start..e : s[i] = "{" })
                        - Cardinality({ i \in start..e : s[i] = "}" })
        ends == IF opens = {} THEN {}
                ELSE { e \in start..Len(s) : depth(e) = 0 }
    IN IF ends = {} THEN Absent
       ELSE SubSeq(s, start, CHOOSE e \in ends : \A f \in ends : e <= f)

\* C31 (as claimed): when the answer that analyze accepts holds a first
\* balanced {...} span that parses, the outcome of analyze is the one for
\* that span alone, whatever text follows the span.
C31_FirstBalancedSpanParsed ==
    (stage = "analyze" /\ ret # Pending
        /\ ~AnalyzeAttemptFailed(inv_log[Len(inv_log)])) =>
        LET content == ContentOf(inv_log[Len(inv_log)])
            span == FirstBalancedSpan(content)
        IN (span # Absent) =>
            (JsonLoads(span).ok =>
                LET built == BuildRequirements(span, args.user_input)
                IN IF built = TypeError THEN ret.kind = "raise"
                   ELSE ret = Returned(built))


\* C32 (as claimed): a list of plain strings and mappings is normalized
\* entry by entry: a string becomes the triple of that question with empty
\* assumption and code, a mapping the triple of its three fields, a missing
\* one empty.
C32_FullTriples ==
    (probe.fn = "normalize"
        /\ \A i \in 1..Len(probe.raw) : probe.raw[i].kind \in {"str", "dict"}) =>
        /\ Len(probe.result) = Len(probe.raw)
        /\ \A i \in 1..Len(probe.raw) :
            LET q == probe.raw[i]
                field(v) == IF v = Absent THEN Empty ELSE v
            IN probe.result[i] =
                IF q.kind = "str"
                THEN [question |-> q.question, assumption |-> Empty,
                      code |-> Empty]
                ELSE [question |-> field(q.question),
                      assumption |-> field(q.assumption),
                      code |-> field(q.code)]

\* C33: normalizing the triples that a normalization gave yields the same
\* list: as many entries, in the same order, with the same three fields.
C33_NormalizationIdempotent ==
    (probe.fn = "normalize") =>
        /\ Len(probe.again) = Len(probe.result)
        /\ \A i \in 1..Len(probe.result) :
            /\ probe.again[i].question = probe.result[i].question
            /\ probe.again[i].assumption = probe.result[i].assumption
            /\ probe.again[i].code = probe.result[i].code
        /\ probe.again = probe.result

\* Two different triples, one upgraded from a plain string and one from a
\* mapping without assumption and code, were normalized again.
C33_Witness ==
    /\ probe.fn = "normalize"
    /\ Len(probe.result) = 2
    /\ probe.raw[1].kind = "str"
    /\ probe.raw[2] = QDict(TxtReqAdd, Absent, Absent)
    /\ probe.result[1] # probe.result[2]
    /\ probe.again = probe.result


\* C34 (as claimed): the language tag of a record of analyze is one of the
\* tags of the supported languages.
C34_LanguageTagEnumerated ==
    (probe.fn = "record") =>
        probe.result.programming_language \in LanguageTags

\* The language the payload of an answer carries, in lower case; Empty if
\* it carries none.
PayloadLanguage(content) ==
    LET language == Get(ParsePayload(content).requirements,
                        "programming_language", Empty)
    IN ToLower(language)

\* The languages in the order of priority: react, typescript, javascript,
\* then the others as the table lists them.
PriorityOrder ==
    << TxtReact, <<"t","y","p","e","s","c","r","i","p","t">>, TxtJavascript,
       TxtPython, <<"j","a","v","a">>, <<"c","p","p">>,
       <<"c","s","h","a","r","p">>, <<"g","o">>, <<"r","u","s","t">>,
       <<"r","u","b","y">>, <<"p","h","p">>, <<"s","w","i","f","t">>,
       <<"k","o","t","l","i","n">> >>

\* A pattern of the language lang matches the input, in lower case.
LanguageMatches(lang, input) ==
    \E n \in DOMAIN language_patterns :
        /\ language_patterns[n].lang = lang
        /\ \E k \in DOMAIN language_patterns[n].patterns :
            Search(language_patterns[n].patterns[k], ToLower(input))

\* The first language of PriorityOrder that matches the input; python if
\* none does.
FirstMatchInOrder(input) ==
    LET matching == { n \in DOMAIN PriorityOrder :
                        LanguageMatches(PriorityOrder[n], input) }
    IN IF matching = {} THEN TxtPython
       ELSE PriorityOrder[CHOOSE n \in matching : \A m \in matching : n <= m]

\* The input holds a React marker, in any case.
HasReactMarker(input) ==
    \E marker \in { <<"r","e","a","c","t">>, <<"j","s","x">>,
                    <<"r","e","a","c","t","j","s">>,
                    <<"r","e","a","c","t",".","j","s">> } :
        OccursIn(ToLower(input), marker)

\* C35 (as claimed): when the payload carries no language, the tag of the
\* record is the first language in the order of priority with a pattern
\* that matches the input, and python if none matches.
C35_TagIsFirstMatch ==
    (probe.fn = "record" /\ PayloadLanguage(probe.content) = Empty) =>
        probe.result.programming_language = FirstMatchInOrder(probe.input)

\* C35, amended: when the payload carries no language, the detection gives
\* the first language in the order of priority with a matching pattern, and
\* python if none matches; the tag of the record is that language, but
\* react when the detection gave javascript and the input holds a React
\* marker.
C35_TagIsFirstMatchOrUpgrade ==
    (probe.fn = "record" /\ PayloadLanguage(probe.content) = Empty) =>
        /\ probe.detected = FirstMatchInOrder(probe.input)
        /\ probe.result.programming_language =
                IF probe.detected = TxtJavascript /\ HasReactMarker(probe.input)
                THEN TxtReact
                ELSE probe.detected

\* A payload without a language, and the input 'a reactive js page': the
\* detection gave javascript by the word js, and the record is tagged react.
C35_Witness ==
    /\ probe.fn = "record"
    /\ probe.content = TxtPayloadInProse
    /\ probe.input = TxtInputReact
    /\ probe.detected = TxtJavascript
    /\ probe.result.programming_language = TxtReact

\* C36: the tag of the record is react when the resolved tag, the payload's
\* in lower case or else the detected one, is javascript and the input
\* holds a React marker; otherwise it is the resolved tag.
C36_ReactUpgrade ==
    (probe.fn = "record") =>
        LET resolved == IF PayloadLanguage(probe.content) # Empty
                        THEN PayloadLanguage(probe.content)
                        ELSE probe.detected
        IN probe.result.programming_language =
                IF resolved = TxtJavascript /\ HasReactMarker(probe.input)
                THEN TxtReact
                ELSE resolved

\* The payload said 'JavaScript' and the input 'a REACT app': the record
\* is tagged react.
C36_Witness ==
    /\ probe.fn = "record"
    /\ probe.content = TxtPayloadFull
    /\ probe.input = TxtInputUpperReact
    /\ probe.result.programming_language = TxtReact


\* The inner texts of the blocks of a list, joined by one blank line.
JoinedInner(blocks) ==
    Join([i \in 1..Len(blocks) |-> blocks[i].inner], <<"\n", "\n">>)

\* C37 (as claimed): generate_code returns the blocks tagged with the
\* language of the requirements, in their order and a blank line apart,
\* and all the blocks when none carries that tag.
C37_RecordLanguagePreferred ==
    (probe.fn = "generate_blocks") =>
        LET IsTagged(b) == b.tag = probe.language
            tagged == SelectSeq(probe.blocks, IsTagged)
        IN probe.result =
            IF tagged # <<>> THEN JoinedInner(tagged)
            ELSE JoinedInner(probe.blocks)

\* C38: the safety net gives the trimmed answer exactly when the block is
\* shorter than 30% of the answer, the answer is longer than 200 characters
\* and holds a token of code (of tests, for generate_tests); otherwise the
\* extracted block is returned.
C38_SafetyNet ==
    (probe.fn = "safety_net") =>
        LET raw == probe.raw
            tokens == IF probe.agent = "coding"
                      THEN { <<"d","e","f"," ">>, <<"c","l","a","s","s"," ">>,
                             <<"i","m","p","o","r","t"," ">>,
                             <<"f","r","o","m"," ">>,
                             <<"#"," ","F","i","l","e",":">> }
                      ELSE { <<"d","e","f"," ","t","e","s","t","_">>,
                             <<"i","m","p","o","r","t"," ","p","y","t","e","s","t">>,
                             <<"c","l","a","s","s"," ","T","e","s","t">>,
                             <<"a","s","s","e","r","t"," ">> }
            net == /\ 10 * Len(probe.inner) < 3 * Len(raw)
                   /\ Len(raw) > 200
                   /\ \E token \in tokens : OccursIn(raw, token)
        IN probe.result = IF net THEN SubSeq(raw, 1, Len(raw) - 1)
                          ELSE probe.inner

\* generate_code got an answer of 201 characters that holds 'import ' and a
\* block of three characters, and returned the answer without its last
\* newline.
C38_Witness ==
    /\ probe.fn = "safety_net"
    /\ probe.agent = "coding"
    /\ Len(probe.raw) = 201
    /\ Len(probe.inner) = 3
    /\ probe.result = SubSeq(probe.raw, 1, 200)


\* A mapping without content and without text.
EmptyMapping(r) ==
    /\ r.kind = "dict"
    /\ Strip(DictGet(r.body)) = Empty
    /\ Strip(DictGet(r.alt)) = Empty

\* C39 (as claimed): generate_code and generate_tests treat a mapping whose
\* content is empty as an empty response: the attempt is retried or the
\* invocation fails, and it never returns normally on such a response.
C39_EmptyMappingRetried ==
    (stage \in {"generate", "tests"}) =>
        \A i \in 1..Len(inv_log) :
            EmptyMapping(inv_log[i]) => (i < Len(inv_log) \/ ret.kind # "ok")


\* A stage operation was called and has not returned or raised.
Invoked == stage # "none" /\ ret = Pending

\* C40: an invocation of a stage makes at most 3 model calls and sleeps at
\* most twice, never after its third attempt, and ends by returning or
\* raising; every run ends with one status among completed, stopped, failed
\* and error, which it keeps.
C40_Termination ==
    /\ [](/\ Len(inv_log) <= 3
          /\ Len(slept) <= 2
          /\ Len(slept) <= Len(inv_log)
          /\ (Len(inv_log) = 3 => ret # Pending))
    /\ [][(Len(inv_log) = 3) => (slept' = slept \/ inv_log' = <<>>)]_vars
    /\ Invoked ~> (ret.kind \in {"ok", "raise"})
    /\ (pc = "start") ~>
          (pc = "returned" /\ status \in {"completed", "stopped", "failed", "error"})
    /\ [][(pc \in {"returned", "finished"}) => (status' = status)]_vars

\* A run got its third failed answer in a stage, after two sleeps, and
\* returned with the status failed.
C40_Witness ==
    /\ pc = "returned"
    /\ status = "failed"
    /\ Len(inv_log) = 3
    /\ slept = <<1, 2>>
    /\ ret.kind = "raise"

====
